---------------------------- MODULE Spec2Model ----------------------------
(***************************************************************************)
(* Model of the storage layer of the annotation tool:                      *)
(*   - IndexedDBStorage  (src/src/utils/indexedDBStorage.js), the Local    *)
(*     Engine's embedded database;                                         *)
(*   - firebaseStorage   (src/unnamed/part_007), the Remote Engine;        *)
(*   - storageService    (src/unnamed/part_005, lines 442-768), the        *)
(*     Storage Facade with its module-level engine pointer.                *)
(*   - StorageManager    (src/unnamed/part_006), the Local Engine's        *)
(*     wrapper with the flat-store fallback: its two annotation calls.     *)
(*                                                                         *)
(* A JavaScript object is a function from field names to values; a field   *)
(* that is undefined is absent from the DOMAIN.  An async function is a    *)
(* task whose pc names the await it is suspended at; one action is the     *)
(* code that runs between two awaits.                                      *)
(***************************************************************************)
EXTENDS Integers, Sequences, FiniteSets, TLC

\* ------------------------------------------------------------------ bounds
MaxClock == 2        \* the wall clock ticks at most this many times
MaxAnns == 2         \* appendAnnotation is issued only below this length
MaxCalls == 2        \* facade calls issued in one behaviour

\* ------------------------------------------------------------ JS objects
EmptyObj == [k \in {} |-> k]

Has(o, k) == k \in DOMAIN o

\* {...a, ...b}
Spread(a, b) ==
  [k \in (DOMAIN a) \cup (DOMAIN b) |-> IF k \in DOMAIN b THEN b[k] ELSE a[k]]

\* an object without the fields ks
Without(o, ks) == [k \in (DOMAIN o) \ ks |-> o[k]]

\* thread.annotations is an array, or (legacy) one bare annotation object
Arr(s) == [arr |-> TRUE, items |-> s]
LegacyObj(x) == [arr |-> FALSE, items |-> <<x>>]

\* ------------------------------------------------------------- the inputs
Ids == {"t1", "t2"}
IdOrder == <<"_debug_thread", "t1", "t2">>
Users == {"u1"}
NoUser == "none"
Email(u) == u \o "@mail"
Uid(u) == "uid-" \o u

\* serverTimestamp(): a sentinel the server replaces by its time on commit
ServerTimestamp == -1
\* an ISO time earlier than every time the model's clock shows
Earlier == 0

\* the annotation a legacy thread holds as a bare object
LegacyAnn == [rating |-> "bad"]

T1a == [id |-> "t1", title |-> "a", isAnnotated |-> FALSE, annotations |-> Arr(<<>>)]
T1b == [id |-> "t1", isAnnotated |-> TRUE, annotations |-> LegacyObj(LegacyAnn),
        createdAt |-> Earlier]
T2 == [id |-> "t2", title |-> "b", isAnnotated |-> FALSE, annotations |-> Arr(<<>>)]
\* a malformed record: no primary key
NoIdRec == [title |-> "x"]

ThreadInputs == {T1a, T2}
ListInputs == {<<T1a, NoIdRec, T2>>, <<NoIdRec>>}
\* updates: a changed title
UpdateInputs == {[title |-> "a"]}
\* updates that name another id than the thread's
IdUpdateInputs == {[id |-> "t2"]}
\* annotationData, with a timestamp of the caller's own
AnnInputs == {[rating |-> "good", timestamp |-> 9]}
\* annotationIndex: negative, the first, and past the end of any list
IndexInputs == {0 - 1, 0, MaxAnns}
\* the thread the annotation calls are issued for
AnnIds == {"t1"}

\* --------------------------------------------------------------- results
VBool(b) == [t |-> "bool", b |-> b]
VObj(o) == [t |-> "obj", o |-> o]
VList(l) == [t |-> "list", l |-> l]
VNull == [t |-> "null"]
VNum(n) == [t |-> "num", n |-> n]
Returned(v) == [kind |-> "returned", val |-> v]
Threw(m) == [kind |-> "threw", msg |-> m]
NoRes == [kind |-> "none"]

AuthError == "User not authenticated"
RemoteNotFound == "Thread not found"
FacadeNotFound == "Thread ${threadId} not found"
IoError == "event.target.error"
TypeError == "TypeError"

VARIABLES
  idb,            \* the 'threads' object store of the embedded database, by key
  idbAvailable,   \* whether indexedDB.open() can succeed in this browser
  idbHandle,      \* IndexedDBStorage.db
  remote,         \* the remote 'threads' collection, by document id
  currentUser,    \* auth.currentUser
  authQueue,      \* auth-state changes not yet delivered to the observer
  currentStorage, \* the facade's module-level engine pointer
  clock,          \* Date.now() / the server's time
  tasks,          \* the async calls in flight
  calls,          \* how many calls were issued so far
  usingIndexedDB, \* StorageManager._usingIndexedDB
  flat,           \* what JSON.parse reads from localStorage's 'threads' item
  settings        \* the 'settings' object store, by key, and the parsed
                  \* 'settings' item of localStorage, if there is one

vars == <<idb, idbAvailable, idbHandle, remote, currentUser, authQueue,
          currentStorage, clock, tasks, calls, usingIndexedDB, flat, settings>>

Procs == {"p1"}

\* what earlier runs of the application left in the two engines
IdbSeeds ==
  {[i \in {"t1", "t2"} |-> IF i = "t1" THEN T1b ELSE T2]}

RemoteSeeds ==
  {[i \in {"t1"} |->
      Spread(T1a, [lastModifiedBy |-> Email("u1"), lastModifiedByUid |-> Uid("u1"),
                   updatedAt |-> Earlier, createdAt |-> Earlier])]}

\* the flat store holds a thread that never had an annotations field
T1c == [id |-> "t1", title |-> "c", isAnnotated |-> FALSE]
FlatSeed == <<T1c>>

\* the settings an earlier run saved, in the database if it could be opened
\* and in the flat store
Settings0 == [theme |-> "light"]
SettingsSeed(available) ==
  [local |-> IF available
             THEN [i \in {"app-settings"} |->
                     [id |-> "app-settings", data |-> Settings0, updatedAt |-> Earlier]]
             ELSE EmptyObj,
   flat |-> <<Settings0>>]

IdleTask ==
  [op |-> "idle", pc |-> "idle", route |-> "none", id |-> "", obj |-> EmptyObj,
   list |-> <<>>, work |-> <<>>, idx |-> 0, res |-> NoRes,
   \* history of the call, read only by the properties
   route0 |-> "none", hadSession |-> FALSE, arg |-> EmptyObj, net |-> 0,
   reads |-> {}, writes |-> {}, io |-> FALSE]

Init ==
  /\ idbAvailable \in BOOLEAN
  /\ idb \in (IF idbAvailable THEN IdbSeeds ELSE {EmptyObj})
  /\ idbHandle = "null"
  /\ remote \in RemoteSeeds
  /\ currentUser = NoUser
  /\ authQueue = <<>>
  /\ currentStorage = "local"
  /\ clock = 1
  /\ tasks = [p \in Procs |-> IdleTask]
  /\ calls = 0
  /\ usingIndexedDB = "null"
  /\ flat = FlatSeed
  /\ settings = SettingsSeed(idbAvailable)

\* ------------------------------------------------------------ environment
Tick ==
  /\ clock < MaxClock
  /\ clock' = clock + 1
  /\ UNCHANGED <<idb, idbAvailable, settings, idbHandle, remote, currentUser, authQueue,
                 currentStorage, tasks, calls, usingIndexedDB, flat>>

\* signIn / signUp: the auth library sets auth.currentUser and notifies the
\* registered observers afterwards; it runs one change at a time, so a
\* change starts only after the notification of the one before is out
SignIn(u) ==
  /\ currentUser = NoUser
  /\ authQueue = <<>>
  /\ currentUser' = u
  /\ authQueue' = Append(authQueue, u)
  /\ UNCHANGED <<idb, idbAvailable, settings, idbHandle, remote, currentStorage, clock, tasks,
                 calls, usingIndexedDB, flat>>

SignOut ==
  /\ currentUser # NoUser
  /\ authQueue = <<>>
  /\ currentUser' = NoUser
  /\ authQueue' = Append(authQueue, NoUser)
  /\ UNCHANGED <<idb, idbAvailable, settings, idbHandle, remote, currentStorage, clock, tasks,
                 calls, usingIndexedDB, flat>>

\* the observer initStorage registered
StorageFor(user) == IF user # NoUser THEN "remote" ELSE "local"

AuthStateChanged ==
  /\ authQueue # <<>>
  /\ currentStorage' = StorageFor(Head(authQueue))
  /\ authQueue' = Tail(authQueue)
  /\ UNCHANGED <<idb, idbAvailable, settings, idbHandle, remote, currentUser, clock, tasks,
                 calls, usingIndexedDB, flat>>


\* ------------------------------------------------------- task bookkeeping
Tk(p) == tasks[p]
SetTask(p, t) == tasks' = [tasks EXCEPT ![p] = t]
Done(t, r) == [t EXCEPT !.pc = "done", !.res = r]

\* a facade function is called: its arguments, and the history the
\* properties read
Begin(op, id, obj, list, idx) ==
  [IdleTask EXCEPT !.op = op, !.id = id, !.obj = obj, !.list = list, !.idx = idx,
                   !.arg = obj, !.route = currentStorage, !.route0 = currentStorage,
                   !.hadSession = (currentUser # NoUser)]

RECURSIVE MapIds(_, _)
MapIds(ids, store) ==
  IF ids = <<>> THEN <<>> ELSE <<store[Head(ids)]>> \o MapIds(Tail(ids), store)

\* ---------------------------------------------------- IndexedDBStorage
\* init(): resolves when the handle is cached or the open succeeds
InitOk == idbHandle = "open" \/ idbAvailable

HandleAfterInit == IF InitOk THEN "open" ELSE idbHandle

\* store.getAll(): the records in key order
IdbGetAll(store) == MapIds(SelectSeq(IdOrder, LAMBDA i : i \in DOMAIN store), store)

\* a getThreads that lets the failed open reach its caller
IdbGetThreads_OpenFailureThrows(fail) ==
  IF ~InitOk \/ fail THEN Threw(IoError)
  ELSE Returned(VList(IdbGetAll(idb)))

\* getThreads(): [] when init fails; the request's error rejects past the catch
IdbGetThreads(fail) ==
  IF ~InitOk THEN Returned(VList(<<>>))
  ELSE IF fail THEN Threw(IoError)
  ELSE Returned(VList(IdbGetAll(idb)))

\* getThreadById(id)
IdbGetThreadById(id, fail) ==
  IF ~InitOk THEN Returned(VNull)
  ELSE IF fail THEN Threw(IoError)
  ELSE IF id \in DOMAIN idb THEN Returned(VObj(idb[id]))
  ELSE Returned(VNull)

\* threads.filter(thread => thread && typeof thread === 'object' && thread.id)
Cleaned(list) == SelectSeq(list, LAMBDA t : Has(t, "id"))

DupKeys(list) ==
  \E m, n \in 1..Len(list) : m # n /\ list[m].id = list[n].id

\* a store that keeps none of the records added to it
StoreOf_KeepsNothing(list) == EmptyObj

StoreOf(list) ==
  [i \in {list[n].id : n \in 1..Len(list)} |->
     list[CHOOSE n \in 1..Len(list) : list[n].id = i]]

\* a saveThreads whose transaction fails on a record without a key
IdbSaveOutcome_KeylessFails(list, fail) ==
  IF ~InitOk THEN "false"
  ELSE IF fail \/ Len(Cleaned(list)) # Len(list) \/ DupKeys(Cleaned(list)) THEN "reject"
  ELSE "true"

\* saveThreads(threads): false when init fails; one transaction clears the
\* store and adds every cleaned record; a failed add (a key already added)
\* or any other transaction error aborts it and rejects
IdbSaveOutcome(list, fail) ==
  IF ~InitOk THEN "false"
  ELSE IF fail \/ DupKeys(Cleaned(list)) THEN "reject"
  ELSE "true"

\* a saveThreads whose clear() stays when a later add fails
IdbAfterSave_ClearStays(list, fail) ==
  IF IdbSaveOutcome(list, fail) = "true" THEN StoreOf(Cleaned(list))
  ELSE IF InitOk THEN EmptyObj ELSE idb

IdbAfterSave(list, fail) ==
  IF IdbSaveOutcome(list, fail) = "true" THEN StoreOf(Cleaned(list)) ELSE idb

\* ------------------------------------------------------ firebaseStorage
\* the server replaces the serverTimestamp() sentinels on commit
Resolve(data, now) ==
  [k \in DOMAIN data |->
     IF k \in {"createdAt", "updatedAt"} /\ data[k] = ServerTimestamp
     THEN now ELSE data[k]]

\* a setDoc that leaves the written document alone in the collection
SetDoc_ReplacesCollection(docs, id, data, now) ==
  [i \in {id} |-> Resolve(data, now)]

\* a setDoc that merges into the stored document, as with { merge: true }
SetDoc_Merges(docs, id, data, now) ==
  [i \in (DOMAIN docs) \cup {id} |->
     IF i # id THEN docs[i]
     ELSE IF id \in DOMAIN docs THEN Spread(docs[id], Resolve(data, now))
     ELSE Resolve(data, now)]

\* setDoc(ref, data): the document becomes data
SetDoc(docs, id, data, now) ==
  [i \in (DOMAIN docs) \cup {id} |-> IF i = id THEN Resolve(data, now) ELSE docs[i]]

\* an update in which the fields already stored win over the update's
UpdateDoc_StoredFieldsWin(docs, id, data, now) ==
  [docs EXCEPT ![id] = Spread(Resolve(data, now), docs[id])]

\* updateDoc(ref, data): data's fields are merged into the document
UpdateDoc(docs, id, data, now) ==
  [docs EXCEPT ![id] = Spread(docs[id], Resolve(data, now))]

\* deleteDoc(ref)
DeleteDoc(docs, id) == [i \in (DOMAIN docs) \ {id} |-> docs[i]]

IdRank(i) == CHOOSE n \in 1..Len(IdOrder) : IdOrder[n] = i

RECURSIVE OrderedDocs(_, _)
\* query(collection, orderBy('updatedAt', 'desc'))
OrderedDocs(docs, S) ==
  IF S = {} THEN <<>>
  ELSE LET m == CHOOSE d \in S : \A e \in S :
                  \/ docs[d].updatedAt > docs[e].updatedAt
                  \/ docs[d].updatedAt = docs[e].updatedAt /\ IdRank(d) >= IdRank(e)
       IN <<docs[m]>> \o OrderedDocs(docs, S \ {m})

\* the guard that opens every remote operation
NoSession == currentUser = NoUser

\* a saveThread that stamps every thread as written by nobody in particular
SaveMeta_Anonymous(thread, user) ==
  Spread(thread,
         [lastModifiedBy |-> "anonymous", lastModifiedByUid |-> "anonymous",
          updatedAt |-> ServerTimestamp,
          createdAt |-> IF Has(thread, "createdAt") THEN thread.createdAt
                        ELSE ServerTimestamp])

\* { ...thread, lastModifiedBy, lastModifiedByUid, updatedAt, createdAt }
SaveMeta(thread, user) ==
  Spread(thread,
         [lastModifiedBy |-> Email(user), lastModifiedByUid |-> Uid(user),
          updatedAt |-> ServerTimestamp,
          createdAt |-> IF Has(thread, "createdAt") THEN thread.createdAt
                        ELSE ServerTimestamp])

\* { ...thread, importedBy, importedByUid, updatedAt, createdAt }
ImportMeta(thread, user) ==
  Spread(thread,
         [importedBy |-> Email(user), importedByUid |-> Uid(user),
          updatedAt |-> ServerTimestamp,
          createdAt |-> IF Has(thread, "createdAt") THEN thread.createdAt
                        ELSE ServerTimestamp])

\* { ...updates, lastModifiedBy, lastModifiedByUid, updatedAt }
UpdateMeta(updates, user) ==
  Spread(updates,
         [lastModifiedBy |-> Email(user), lastModifiedByUid |-> Uid(user),
          updatedAt |-> ServerTimestamp])

\* ------------------------------------------- the history of a call
\* a request to the embedded database: the engine read, and whether the
\* request itself failed
LocalRead(t, fail) ==
  [t EXCEPT !.reads = @ \cup {"local"}, !.io = @ \/ (InitOk /\ fail)]

LocalWrite(t, outcome, fail) ==
  [t EXCEPT !.writes = IF outcome = "true" THEN @ \cup {"local"} ELSE @,
            !.io = @ \/ (InitOk /\ fail)]

\* a request to the document database
RemoteRead(t, fail) == [t EXCEPT !.reads = @ \cup {"remote"}, !.io = @ \/ fail]

RemoteFault(t, fail) == [t EXCEPT !.io = @ \/ fail]

\* ------------------------------------------------------- storageService
\* threads.findIndex(t => t.id === id); replace there, or push
Upsert(list, id, obj) ==
  IF \E n \in 1..Len(list) : Has(list[n], "id") /\ list[n].id = id
  THEN LET i == CHOOSE n \in 1..Len(list) :
                  /\ Has(list[n], "id") /\ list[n].id = id
                  /\ \A m \in 1..(n - 1) : ~(Has(list[m], "id") /\ list[m].id = id)
       IN [list EXCEPT ![i] = obj]
  ELSE Append(list, obj)

\* Array.isArray(a) ? a : a ? [a] : []
AsArray(thread) ==
  IF ~Has(thread, "annotations") THEN <<>>
  ELSE IF thread.annotations.arr THEN thread.annotations.items
  ELSE <<thread.annotations.items[1]>>

\* an append in which the caller's timestamp wins over the clock's
AppendedThread_CallerTimestamp(thread, annotationData, now) ==
  Spread(thread,
         [isAnnotated |-> TRUE,
          annotations |-> Arr(Append(AsArray(thread),
                                     Spread([timestamp |-> now], annotationData)))])

\* updateAnnotation's updatedThread
AppendedThread(thread, annotationData, now) ==
  Spread(thread,
         [isAnnotated |-> TRUE,
          annotations |-> Arr(Append(AsArray(thread),
                                     Spread(annotationData, [timestamp |-> now])))])

\* Array.prototype.splice(start, 1) with start an index counted from 0
Splice1(s, start) ==
  LET from == IF start < 0 THEN (IF Len(s) + start < 0 THEN 0 ELSE Len(s) + start)
              ELSE (IF start > Len(s) THEN Len(s) ELSE start)
  IN SubSeq(s, 1, from) \o SubSeq(s, from + 2, Len(s))

\* if (updatedAnnotations.length > annotationIndex) splice(annotationIndex, 1)
AnnotationsWithout(s, annotationIndex) ==
  IF Len(s) > annotationIndex THEN Splice1(s, annotationIndex) ELSE s

\* a deleteAnnotation that rewrites the list and leaves the flag as it was
PrunedThread_KeepsFlag(thread, annotationIndex) ==
  Spread(thread,
         [annotations |-> Arr(AnnotationsWithout(AsArray(thread), annotationIndex))])

\* deleteAnnotation's updatedThread
PrunedThread(thread, annotationIndex) ==
  LET updated == AnnotationsWithout(AsArray(thread), annotationIndex)
  IN Spread(thread, [annotations |-> Arr(updated), isAnnotated |-> Len(updated) > 0])


env == <<idbAvailable, currentUser, authQueue, currentStorage, clock,
         usingIndexedDB, flat, settings>>

\* a remote function without its session guard
RemoteEnter_Unguarded(t, pc) == [t EXCEPT !.pc = pc, !.net = @ + 1]

\* what each remote function does before its first await: the session guard,
\* then the first request is issued
RemoteEnter(t, pc) ==
  IF NoSession THEN Done(t, Threw(AuthError))
  ELSE [t EXCEPT !.pc = pc, !.net = @ + 1]

\* remoteStorage.getThread's answer
RemoteGetThread(id, fail) ==
  IF fail THEN Threw(IoError)
  ELSE IF id \in DOMAIN remote THEN Returned(VObj(remote[id]))
  ELSE Returned(VNull)

\* ---- getThreads
GetThreads_Start(p) ==
  /\ Tk(p).pc = "idle"
  /\ calls < MaxCalls
  /\ calls' = calls + 1
  /\ LET t == Begin("getThreads", "", EmptyObj, <<>>, 0)
     IN SetTask(p, IF currentStorage = "local"
                   THEN [t EXCEPT !.pc = "gts_idbGetThreads"]
                   ELSE RemoteEnter(t, "gts_getDocs"))
  /\ UNCHANGED <<idb, idbHandle, remote, env>>

GetThreads_IdbGetThreads(p) ==
  /\ Tk(p).pc = "gts_idbGetThreads"
  /\ \E fail \in BOOLEAN :
       SetTask(p, Done(LocalRead(Tk(p), fail), IdbGetThreads(fail)))
  /\ idbHandle' = HandleAfterInit
  /\ UNCHANGED <<idb, remote, env>>
  /\ UNCHANGED calls

GetThreads_GetDocs(p) ==
  /\ Tk(p).pc = "gts_getDocs"
  /\ \E fail \in BOOLEAN :
       SetTask(p, Done(RemoteRead(Tk(p), fail),
                       IF fail THEN Threw(IoError)
                       ELSE Returned(VList(OrderedDocs(remote, DOMAIN remote)))))
  /\ UNCHANGED <<idb, idbHandle, remote, env>>
  /\ UNCHANGED calls

\* ---- updateThread (also the tail of updateAnnotation and deleteAnnotation)
EnterUpdateThread(t, id, updates) ==
  LET u == [t EXCEPT !.id = id, !.obj = updates, !.route = currentStorage]
  IN IF currentStorage = "local" THEN [u EXCEPT !.pc = "ut_idbGetThreadById"]
     ELSE RemoteEnter(u, "ut_getDoc")

UpdateThread_Start(p, id, updates) ==
  /\ Tk(p).pc = "idle"
  /\ calls < MaxCalls
  /\ calls' = calls + 1
  /\ SetTask(p, EnterUpdateThread(Begin("updateThread", id, updates, <<>>, 0), id, updates))
  /\ UNCHANGED <<idb, idbHandle, remote, env>>

UpdateThread_IdbGetThreadById(p) ==
  /\ Tk(p).pc = "ut_idbGetThreadById"
  /\ \E fail \in BOOLEAN :
       LET r == IdbGetThreadById(Tk(p).id, fail)
           t == LocalRead(Tk(p), fail)
       IN SetTask(p, IF r.kind = "threw" THEN Done(t, r)
                     ELSE IF r.val.t = "null" THEN Done(t, Threw(FacadeNotFound))
                     ELSE [t EXCEPT !.pc = "ut_idbGetThreads",
                                    !.obj = Spread(r.val.o, t.obj)])
  /\ idbHandle' = HandleAfterInit
  /\ UNCHANGED <<idb, remote, env>>
  /\ UNCHANGED calls

UpdateThread_IdbGetThreads(p) ==
  /\ Tk(p).pc = "ut_idbGetThreads"
  /\ \E fail \in BOOLEAN :
       LET r == IdbGetThreads(fail)
           t == LocalRead(Tk(p), fail)
       IN SetTask(p, IF r.kind = "threw" THEN Done(t, r)
                     ELSE [t EXCEPT !.pc = "ut_idbSaveThreads",
                                    !.work = Upsert(r.val.l, t.id, t.obj)])
  /\ idbHandle' = HandleAfterInit
  /\ UNCHANGED <<idb, remote, env>>
  /\ UNCHANGED calls

UpdateThread_IdbSaveThreads(p) ==
  /\ Tk(p).pc = "ut_idbSaveThreads"
  /\ \E fail \in BOOLEAN :
       LET o == IdbSaveOutcome(Tk(p).work, fail)
           t == LocalWrite(Tk(p), o, fail)
       IN /\ SetTask(p, Done(t, IF o = "reject" THEN Threw(IoError)
                                ELSE Returned(VBool(TRUE))))
          /\ idb' = IdbAfterSave(Tk(p).work, fail)
  /\ idbHandle' = HandleAfterInit
  /\ UNCHANGED <<remote, env>>
  /\ UNCHANGED calls

UpdateThread_GetDoc(p) ==
  /\ Tk(p).pc = "ut_getDoc"
  /\ \E fail \in BOOLEAN :
       LET t == RemoteRead(Tk(p), fail)
       IN SetTask(p, IF fail THEN Done(t, Threw(IoError))
                     ELSE IF t.id \notin DOMAIN remote THEN Done(t, Threw(RemoteNotFound))
                     \* auth.currentUser.email with the session gone
                     ELSE IF NoSession THEN Done(t, Threw(TypeError))
                     ELSE [t EXCEPT !.pc = "ut_updateDoc", !.net = @ + 1,
                                    !.obj = UpdateMeta(t.obj, currentUser)])
  /\ UNCHANGED <<idb, idbHandle, remote, env>>
  /\ UNCHANGED calls

UpdateThread_UpdateDoc(p) ==
  /\ Tk(p).pc = "ut_updateDoc"
  /\ \E fail \in BOOLEAN :
       LET ok == ~fail /\ Tk(p).id \in DOMAIN remote
           t == RemoteFault(Tk(p), ~ok)
       IN /\ SetTask(p, IF ok THEN Done([t EXCEPT !.writes = @ \cup {"remote"}],
                                        Returned(VBool(TRUE)))
                        ELSE Done(t, Threw(IoError)))
          /\ remote' = IF ok THEN UpdateDoc(remote, t.id, t.obj, clock) ELSE remote
  /\ UNCHANGED <<idb, idbHandle, env>>
  /\ UNCHANGED calls

\* ---- getThread (also the head of updateAnnotation and deleteAnnotation)
\* an annotation call that starts a thread of its own when none is stored
AfterGetThread_CreatesThread(t, r) ==
  IF t.op = "getThread" \/ r.kind = "threw" THEN Done(t, r)
  ELSE LET thread == IF r.val.t = "null" THEN [id |-> t.id] ELSE r.val.o
       IN EnterUpdateThread(t, t.id,
            IF t.op = "updateAnnotation" THEN AppendedThread(thread, t.obj, clock)
            ELSE PrunedThread(thread, t.idx))

\* what follows the facade's getThread in the calling function
AfterGetThread(t, r) ==
  IF t.op = "getThread" \/ r.kind = "threw" THEN Done(t, r)
  ELSE IF r.val.t = "null" THEN Done(t, Threw(FacadeNotFound))
  ELSE EnterUpdateThread(t, t.id,
         IF t.op = "updateAnnotation" THEN AppendedThread(r.val.o, t.obj, clock)
         ELSE PrunedThread(r.val.o, t.idx))

EnterGetThread(t) ==
  IF currentStorage = "local" THEN [t EXCEPT !.pc = "gt_idbGetThreadById"]
  ELSE RemoteEnter(t, "gt_getDoc")

GetThread_Start(p, id) ==
  /\ Tk(p).pc = "idle"
  /\ calls < MaxCalls
  /\ calls' = calls + 1
  /\ SetTask(p, EnterGetThread(Begin("getThread", id, EmptyObj, <<>>, 0)))
  /\ UNCHANGED <<idb, idbHandle, remote, env>>

GetThread_IdbGetThreadById(p) ==
  /\ Tk(p).pc = "gt_idbGetThreadById"
  /\ \E fail \in BOOLEAN :
       SetTask(p, AfterGetThread(LocalRead(Tk(p), fail),
                                 IdbGetThreadById(Tk(p).id, fail)))
  /\ idbHandle' = HandleAfterInit
  /\ UNCHANGED <<idb, remote, env>>
  /\ UNCHANGED calls

GetThread_GetDoc(p) ==
  /\ Tk(p).pc = "gt_getDoc"
  /\ \E fail \in BOOLEAN :
       SetTask(p, AfterGetThread(RemoteRead(Tk(p), fail),
                                 RemoteGetThread(Tk(p).id, fail)))
  /\ UNCHANGED <<idb, idbHandle, remote, env>>
  /\ UNCHANGED calls

\* ---- updateAnnotation, deleteAnnotation
AnnCount(store, id) == IF id \in DOMAIN store THEN Len(AsArray(store[id])) ELSE 0

UpdateAnnotation_Start(p, id, annotationData) ==
  /\ Tk(p).pc = "idle"
  /\ calls < MaxCalls
  /\ calls' = calls + 1
  /\ AnnCount(idb, id) < MaxAnns /\ AnnCount(remote, id) < MaxAnns
  /\ SetTask(p, EnterGetThread(Begin("updateAnnotation", id, annotationData, <<>>, 0)))
  /\ UNCHANGED <<idb, idbHandle, remote, env>>

DeleteAnnotation_Start(p, id, annotationIndex) ==
  /\ Tk(p).pc = "idle"
  /\ calls < MaxCalls
  /\ calls' = calls + 1
  /\ SetTask(p, EnterGetThread(Begin("deleteAnnotation", id, EmptyObj, <<>>, annotationIndex)))
  /\ UNCHANGED <<idb, idbHandle, remote, env>>


\* ---- saveThread
\* an error reaches the caller, or saveThreads' catch, which returns false
Raise(caught, m) == IF caught THEN Returned(VBool(FALSE)) ELSE Threw(m)

\* remoteStorage.saveThread up to its await of setDoc; doc(db, name, undefined)
\* throws
RemoteSaveEnter(t, thread, pc, caught) ==
  IF NoSession THEN Done(t, Raise(caught, AuthError))
  ELSE IF ~Has(thread, "id") THEN Done(t, Raise(caught, TypeError))
  ELSE [t EXCEPT !.pc = pc, !.net = @ + 1, !.obj = SaveMeta(thread, currentUser)]

SaveThread_Start(p, thread) ==
  /\ Tk(p).pc = "idle"
  /\ calls < MaxCalls
  /\ calls' = calls + 1
  /\ LET t == Begin("saveThread", thread.id, thread, <<>>, 0)
     IN SetTask(p, IF currentStorage = "local"
                   THEN [t EXCEPT !.pc = "st_idbGetThreads"]
                   ELSE RemoteSaveEnter(t, thread, "st_setDoc", FALSE))
  /\ UNCHANGED <<idb, idbHandle, remote, env>>

SaveThread_IdbGetThreads(p) ==
  /\ Tk(p).pc = "st_idbGetThreads"
  /\ \E fail \in BOOLEAN :
       LET r == IdbGetThreads(fail)
           t == LocalRead(Tk(p), fail)
       IN SetTask(p, IF r.kind = "threw" THEN Done(t, r)
                     ELSE [t EXCEPT !.pc = "st_idbSaveThreads",
                                    !.work = Upsert(r.val.l, t.obj.id, t.obj)])
  /\ idbHandle' = HandleAfterInit
  /\ UNCHANGED <<idb, remote, env>>
  /\ UNCHANGED calls

SaveThread_IdbSaveThreads(p) ==
  /\ Tk(p).pc = "st_idbSaveThreads"
  /\ \E fail \in BOOLEAN :
       LET o == IdbSaveOutcome(Tk(p).work, fail)
           t == LocalWrite(Tk(p), o, fail)
       IN /\ SetTask(p, Done(t, IF o = "reject" THEN Threw(IoError)
                                ELSE Returned(VObj(t.obj))))
          /\ idb' = IdbAfterSave(Tk(p).work, fail)
  /\ idbHandle' = HandleAfterInit
  /\ UNCHANGED <<remote, env>>
  /\ UNCHANGED calls

SaveThread_SetDoc(p) ==
  /\ Tk(p).pc = "st_setDoc"
  /\ \E fail \in BOOLEAN :
       LET t == RemoteFault(Tk(p), fail)
       IN /\ SetTask(p, IF fail THEN Done(t, Threw(IoError))
                        ELSE Done([t EXCEPT !.writes = @ \cup {"remote"}],
                                  Returned(VObj(t.obj))))
          /\ remote' = IF fail THEN remote ELSE SetDoc(remote, t.obj.id, t.obj, clock)
  /\ UNCHANGED <<idb, idbHandle, env>>
  /\ UNCHANGED calls

\* ---- saveThreads
\* for (const thread of threads) await remoteStorage.saveThread(thread)
SaveThreadsLoop(t, k) ==
  IF k > Len(t.list) THEN Done(t, Returned(VBool(TRUE)))
  ELSE RemoteSaveEnter([t EXCEPT !.idx = k], t.list[k], "sts_setDoc", TRUE)

SaveThreads_Start(p, threads) ==
  /\ Tk(p).pc = "idle"
  /\ calls < MaxCalls
  /\ calls' = calls + 1
  /\ LET t == Begin("saveThreads", "", EmptyObj, threads, 0)
     IN SetTask(p, IF currentStorage = "local"
                   THEN [t EXCEPT !.pc = "sts_idbSaveThreads"]
                   ELSE SaveThreadsLoop(t, 1))
  /\ UNCHANGED <<idb, idbHandle, remote, env>>

SaveThreads_IdbSaveThreads(p) ==
  /\ Tk(p).pc = "sts_idbSaveThreads"
  /\ \E fail \in BOOLEAN :
       LET o == IdbSaveOutcome(Tk(p).list, fail)
           t == LocalWrite(Tk(p), o, fail)
       IN /\ SetTask(p, Done(t, Returned(VBool(o = "true"))))
          /\ idb' = IdbAfterSave(Tk(p).list, fail)
  /\ idbHandle' = HandleAfterInit
  /\ UNCHANGED <<remote, env>>
  /\ UNCHANGED calls

SaveThreads_SetDoc(p) ==
  /\ Tk(p).pc = "sts_setDoc"
  /\ \E fail \in BOOLEAN :
       LET t == RemoteFault(Tk(p), fail)
       IN /\ SetTask(p, IF fail THEN Done(t, Raise(TRUE, IoError))
                        ELSE SaveThreadsLoop([t EXCEPT !.writes = @ \cup {"remote"}],
                                             t.idx + 1))
          /\ remote' = IF fail THEN remote ELSE SetDoc(remote, t.obj.id, t.obj, clock)
  /\ UNCHANGED <<idb, idbHandle, env>>
  /\ UNCHANGED calls

\* ---- deleteThread
DeleteThread_Start(p, id) ==
  /\ Tk(p).pc = "idle"
  /\ calls < MaxCalls
  /\ calls' = calls + 1
  /\ LET t == Begin("deleteThread", id, EmptyObj, <<>>, 0)
     IN SetTask(p, IF currentStorage = "local"
                   THEN [t EXCEPT !.pc = "dt_idbGetThreads"]
                   ELSE RemoteEnter(t, "dt_getDoc"))
  /\ UNCHANGED <<idb, idbHandle, remote, env>>

DeleteThread_IdbGetThreads(p) ==
  /\ Tk(p).pc = "dt_idbGetThreads"
  /\ \E fail \in BOOLEAN :
       LET r == IdbGetThreads(fail)
           t == LocalRead(Tk(p), fail)
           filtered == SelectSeq(r.val.l, LAMBDA x : x.id # t.id)
       IN SetTask(p, IF r.kind = "threw" THEN Done(t, r)
                     ELSE IF Len(filtered) = Len(r.val.l)
                          THEN Done(t, Returned(VBool(FALSE)))
                     ELSE [t EXCEPT !.pc = "dt_idbSaveThreads", !.work = filtered])
  /\ idbHandle' = HandleAfterInit
  /\ UNCHANGED <<idb, remote, env>>
  /\ UNCHANGED calls

DeleteThread_IdbSaveThreads(p) ==
  /\ Tk(p).pc = "dt_idbSaveThreads"
  /\ \E fail \in BOOLEAN :
       LET o == IdbSaveOutcome(Tk(p).work, fail)
           t == LocalWrite(Tk(p), o, fail)
       IN /\ SetTask(p, Done(t, IF o = "reject" THEN Threw(IoError)
                                ELSE Returned(VBool(TRUE))))
          /\ idb' = IdbAfterSave(Tk(p).work, fail)
  /\ idbHandle' = HandleAfterInit
  /\ UNCHANGED <<remote, env>>
  /\ UNCHANGED calls

DeleteThread_GetDoc(p) ==
  /\ Tk(p).pc = "dt_getDoc"
  /\ \E fail \in BOOLEAN :
       LET t == RemoteRead(Tk(p), fail)
       IN SetTask(p, IF fail THEN Done(t, Threw(IoError))
                     ELSE IF t.id \notin DOMAIN remote THEN Done(t, Threw(RemoteNotFound))
                     ELSE [t EXCEPT !.pc = "dt_deleteDoc", !.net = @ + 1])
  /\ UNCHANGED <<idb, idbHandle, remote, env>>
  /\ UNCHANGED calls

DeleteThread_DeleteDoc(p) ==
  /\ Tk(p).pc = "dt_deleteDoc"
  /\ \E fail \in BOOLEAN :
       LET t == RemoteFault(Tk(p), fail)
       IN /\ SetTask(p, IF fail THEN Done(t, Threw(IoError))
                        ELSE Done([t EXCEPT !.writes = @ \cup {"remote"}],
                                  Returned(VBool(TRUE))))
          /\ remote' = IF fail THEN remote ELSE DeleteDoc(remote, t.id)
  /\ UNCHANGED <<idb, idbHandle, env>>
  /\ UNCHANGED calls

\* ---- importThreads
\* the body of remoteStorage.importThreads' loop up to its await of setDoc;
\* the results are in work
ImportLoop(t, k) ==
  IF k > Len(t.list)
  THEN Done(t, IF t.op = "syncToRemote" THEN Returned(VNum(Len(t.list)))
               ELSE Returned(VList(t.work)))
  ELSE IF NoSession \/ ~Has(t.list[k], "id") THEN Done(t, Threw(TypeError))
  ELSE [t EXCEPT !.pc = "it_setDoc", !.idx = k, !.net = @ + 1,
                 !.obj = ImportMeta(t.list[k], currentUser)]

ImportThreads_Start(p, threads) ==
  /\ Tk(p).pc = "idle"
  /\ calls < MaxCalls
  /\ calls' = calls + 1
  /\ LET t == Begin("importThreads", "", EmptyObj, threads, 0)
     IN SetTask(p, IF currentStorage = "local"
                   THEN [t EXCEPT !.pc = "it_idbGetThreads"]
                   ELSE IF NoSession THEN Done(t, Threw(AuthError))
                   ELSE ImportLoop(t, 1))
  /\ UNCHANGED <<idb, idbHandle, remote, env>>

ImportThreads_IdbGetThreads(p) ==
  /\ Tk(p).pc = "it_idbGetThreads"
  /\ \E fail \in BOOLEAN :
       LET r == IdbGetThreads(fail)
           t == LocalRead(Tk(p), fail)
       IN SetTask(p, IF r.kind = "threw" THEN Done(t, r)
                     ELSE [t EXCEPT !.pc = "it_idbSaveThreads",
                                    !.work = r.val.l \o t.list])
  /\ idbHandle' = HandleAfterInit
  /\ UNCHANGED <<idb, remote, env>>
  /\ UNCHANGED calls

ImportThreads_IdbSaveThreads(p) ==
  /\ Tk(p).pc = "it_idbSaveThreads"
  /\ \E fail \in BOOLEAN :
       LET o == IdbSaveOutcome(Tk(p).work, fail)
           t == LocalWrite(Tk(p), o, fail)
       IN /\ SetTask(p, Done(t, IF o = "reject" THEN Threw(IoError)
                                ELSE Returned(VList(t.list))))
          /\ idb' = IdbAfterSave(Tk(p).work, fail)
  /\ idbHandle' = HandleAfterInit
  /\ UNCHANGED <<remote, env>>
  /\ UNCHANGED calls

\* a bulk import that goes on with the next thread when a write fails
ImportThreads_SetDoc_SkipsFailure(p) ==
  /\ Tk(p).pc = "it_setDoc"
  /\ \E fail \in BOOLEAN :
       LET t == RemoteFault(Tk(p), fail)
       IN /\ SetTask(p, ImportLoop([t EXCEPT !.writes = @ \cup {"remote"},
                                             !.work = IF fail THEN @ ELSE Append(@, t.obj)],
                                   t.idx + 1))
          /\ remote' = IF fail THEN remote ELSE SetDoc(remote, t.obj.id, t.obj, clock)
  /\ UNCHANGED <<idb, idbHandle, env>>
  /\ UNCHANGED calls

ImportThreads_SetDoc(p) ==
  /\ Tk(p).pc = "it_setDoc"
  /\ \E fail \in BOOLEAN :
       LET t == RemoteFault(Tk(p), fail)
       IN /\ SetTask(p, IF fail THEN Done(t, Threw(IoError))
                        ELSE ImportLoop([t EXCEPT !.writes = @ \cup {"remote"},
                                                  !.work = Append(@, t.obj)],
                                        t.idx + 1))
          /\ remote' = IF fail THEN remote ELSE SetDoc(remote, t.obj.id, t.obj, clock)
  /\ UNCHANGED <<idb, idbHandle, env>>
  /\ UNCHANGED calls

\* ---- syncToRemote
\* if (!isAuthenticated()) throw new Error('User not authenticated')
SyncToRemote_Start(p) ==
  /\ Tk(p).pc = "idle"
  /\ calls < MaxCalls
  /\ calls' = calls + 1
  /\ LET t == Begin("syncToRemote", "", EmptyObj, <<>>, 0)
     IN SetTask(p, IF NoSession THEN Done(t, Threw(AuthError))
                   ELSE [t EXCEPT !.pc = "sync_idbGetThreads", !.route = "local"])
  /\ UNCHANGED <<idb, idbHandle, remote, env>>

\* await IndexedDBStorage.getThreads(); with threads to sync, the call of
\* remoteStorage.importThreads up to its first await
SyncToRemote_IdbGetThreads(p) ==
  /\ Tk(p).pc = "sync_idbGetThreads"
  /\ \E fail \in BOOLEAN :
       LET r == IdbGetThreads(fail)
           t == LocalRead(Tk(p), fail)
       IN SetTask(p, IF r.kind = "threw" THEN Done(t, r)
                     ELSE IF Len(r.val.l) = 0 THEN Done(t, Returned(VNum(0)))
                     ELSE IF NoSession THEN Done(t, Threw(AuthError))
                     ELSE ImportLoop([t EXCEPT !.list = r.val.l, !.route = "remote"], 1))
  /\ idbHandle' = HandleAfterInit
  /\ UNCHANGED <<idb, remote, env>>
  /\ UNCHANGED calls

\* ------------------------------------------------------- StorageManager
\* init(): the cached choice, or isIndexedDBAvailable(): the open and the
\* probe write and read of testStorage() both succeed
UsingAfterInit ==
  IF usingIndexedDB # "null" THEN {usingIndexedDB}
  ELSE IF InitOk THEN {"true", "false"} ELSE {"false"}

\* threads.find(thread => thread.id === threadId) || null
FlatFind(list, id) ==
  IF \E n \in 1..Len(list) : Has(list[n], "id") /\ list[n].id = id
  THEN Returned(VObj(list[CHOOSE n \in 1..Len(list) :
                            /\ Has(list[n], "id") /\ list[n].id = id
                            /\ \A m \in 1..(n - 1) :
                                 ~(Has(list[m], "id") /\ list[m].id = id)]))
  ELSE Returned(VNull)

\* StorageManager.getThreadById: a rejected request is caught and read as null
ManagerGetThreadById(using, id, fail) ==
  IF using = "true"
  THEN (IF IdbGetThreadById(id, fail).kind = "threw" THEN Returned(VNull)
        ELSE IdbGetThreadById(id, fail))
  ELSE FlatFind(flat, id)

\* StorageManager.updateAnnotation's thread before it is saved
ManagerAppendedThread(thread, annotationData, now) ==
  Spread(Spread(thread, [isAnnotated |-> TRUE]),
         [annotations |-> Arr(Append(AsArray(thread),
                                     Spread(annotationData, [timestamp |-> now])))])

\* StorageManager.deleteAnnotation between its read and its save: it
\* returns true with nothing to delete, false on an index out of range, or
\* goes on to save the thread without the annotation
ManagerPrune(t, thread) ==
  IF ~Has(thread, "annotations") THEN Done(t, Returned(VBool(TRUE)))
  ELSE IF t.idx < 0 \/ t.idx >= Len(AsArray(thread)) THEN Done(t, Returned(VBool(FALSE)))
  ELSE [t EXCEPT !.pc = "sm_saveThread",
                 !.obj = Spread(thread,
                           [annotations |-> Arr(Splice1(AsArray(thread), t.idx)),
                            isAnnotated |-> Len(Splice1(AsArray(thread), t.idx)) > 0])]

Manager_UpdateAnnotation_Start(p, id, annotationData) ==
  /\ Tk(p).pc = "idle"
  /\ calls < MaxCalls
  /\ calls' = calls + 1
  /\ AnnCount(idb, id) < MaxAnns
  /\ FlatFind(flat, id).val.t = "obj" => Len(AsArray(FlatFind(flat, id).val.o)) < MaxAnns
  /\ SetTask(p, [Begin("sm_updateAnnotation", id, annotationData, <<>>, 0)
                   EXCEPT !.pc = "sm_getThreadById", !.route = "manager",
                          !.route0 = "manager"])
  /\ UNCHANGED <<idb, idbHandle, remote, env>>

Manager_DeleteAnnotation_Start(p, id, annotationIndex) ==
  /\ Tk(p).pc = "idle"
  /\ calls < MaxCalls
  /\ calls' = calls + 1
  /\ SetTask(p, [Begin("sm_deleteAnnotation", id, EmptyObj, <<>>, annotationIndex)
                   EXCEPT !.pc = "sm_getThreadById", !.route = "manager",
                          !.route0 = "manager"])
  /\ UNCHANGED <<idb, idbHandle, remote, env>>

\* await StorageManager.getThreadById(threadId), and what follows it up to
\* the await of StorageManager.saveThread(thread)
Manager_GetThreadById(p) ==
  /\ Tk(p).pc = "sm_getThreadById"
  /\ \E using \in UsingAfterInit, fail \in BOOLEAN :
       LET r == ManagerGetThreadById(using, Tk(p).id, fail)
           engine == IF using = "true" THEN "local" ELSE "flat"
           t == [Tk(p) EXCEPT !.route = engine, !.reads = @ \cup {engine},
                              !.io = @ \/ (using = "true" /\ fail)]
       IN /\ usingIndexedDB' = using
          /\ SetTask(p, IF r.val.t = "null" THEN Done(t, Returned(VBool(FALSE)))
                        ELSE IF t.op = "sm_updateAnnotation"
                        THEN [t EXCEPT !.pc = "sm_saveThread",
                                       !.obj = ManagerAppendedThread(r.val.o, t.arg, clock)]
                        ELSE ManagerPrune(t, r.val.o))
  /\ idbHandle' = HandleAfterInit
  /\ UNCHANGED <<idb, remote, idbAvailable, settings, currentUser, authQueue, currentStorage,
                 clock, flat, calls>>

\* IndexedDBStorage.saveThread: store.put(thread), or false when the open or
\* the request fails (StorageManager.saveThread catches the rejection)
IdbPut(store, thread) ==
  [i \in (DOMAIN store) \cup {thread.id} |-> IF i = thread.id THEN thread ELSE store[i]]

\* await StorageManager.saveThread(thread): the database's put, or the flat
\* store's read, replace-or-push and setItem, which can throw
Manager_SaveThread(p) ==
  /\ Tk(p).pc = "sm_saveThread"
  /\ \E fail \in BOOLEAN :
       LET ok == ~fail /\ (usingIndexedDB = "true" => InitOk)
           engine == IF usingIndexedDB = "true" THEN "local" ELSE "flat"
           t == [Tk(p) EXCEPT !.route = engine, !.io = @ \/ fail,
                              !.writes = IF ok THEN @ \cup {engine} ELSE @]
       IN /\ SetTask(p, Done(t, Returned(VBool(ok))))
          /\ idb' = IF ok /\ engine = "local" THEN IdbPut(idb, t.obj) ELSE idb
          /\ flat' = IF ok /\ engine = "flat" THEN Upsert(flat, t.obj.id, t.obj) ELSE flat
  /\ idbHandle' = IF usingIndexedDB = "true" THEN HandleAfterInit ELSE idbHandle
  /\ UNCHANGED <<remote, idbAvailable, settings, currentUser, authQueue, currentStorage,
                 clock, usingIndexedDB, calls>>

\* ---- StorageManager.saveThreads, importData
\* lists of threads handed to StorageManager: two threads, and two versions
\* of one thread
ManagerListInputs == {<<T1a, T2>>, <<T1a, T1c>>}
\* and, for saveThreads, a list that holds a record without an id
ManagerSaveInputs == ManagerListInputs \cup {<<T1a, NoIdRec>>}

\* StorageManager.getThreads: the database's threads, [] when that fails, or
\* the flat store's list
ManagerGetThreads(using, fail) ==
  IF using = "true"
  THEN (IF IdbGetThreads(fail).kind = "threw" THEN <<>> ELSE IdbGetThreads(fail).val.l)
  ELSE flat

RECURSIVE ManagerMerged(_, _)
\* importData's mergedThreads: each imported thread replaces the thread of
\* its id, or is pushed
ManagerMerged(merged, imported) ==
  IF imported = <<>> THEN merged
  ELSE ManagerMerged(Upsert(merged, Head(imported).id, Head(imported)), Tail(imported))

Manager_SaveThreads_Start(p, threads) ==
  /\ Tk(p).pc = "idle"
  /\ calls < MaxCalls
  /\ calls' = calls + 1
  /\ SetTask(p, [Begin("sm_saveThreads", "", EmptyObj, threads, 0)
                   EXCEPT !.pc = "sm_saveThreads", !.work = threads,
                          !.route = "manager", !.route0 = "manager"])
  /\ UNCHANGED <<idb, idbHandle, remote, env>>

Manager_ImportData_Start(p, threads, replace) ==
  /\ Tk(p).pc = "idle"
  /\ calls < MaxCalls
  /\ calls' = calls + 1
  /\ SetTask(p, [Begin("sm_importData", "", EmptyObj, threads, 0)
                   EXCEPT !.pc = IF replace THEN "sm_saveThreads" ELSE "sm_getThreads",
                          !.work = threads,
                          !.arg = [replace |-> replace, local |-> IdbGetAll(idb),
                                   flat |-> flat],
                          !.route = "manager", !.route0 = "manager"])
  /\ UNCHANGED <<idb, idbHandle, remote, env>>

\* importData's await StorageManager.getThreads(), and the merge
Manager_ImportData_GetThreads(p) ==
  /\ Tk(p).pc = "sm_getThreads"
  /\ \E using \in UsingAfterInit, fail \in BOOLEAN :
       LET engine == IF using = "true" THEN "local" ELSE "flat"
           t == [Tk(p) EXCEPT !.route = engine, !.reads = @ \cup {engine},
                              !.io = @ \/ (using = "true" /\ fail)]
       IN /\ usingIndexedDB' = using
          /\ SetTask(p, [t EXCEPT !.pc = "sm_saveThreads",
                                  !.work = ManagerMerged(ManagerGetThreads(using, fail),
                                                         t.list)])
  /\ idbHandle' = HandleAfterInit
  /\ UNCHANGED <<idb, remote, idbAvailable, settings, currentUser, authQueue, currentStorage,
                 clock, flat, calls>>

\* await StorageManager.saveThreads(threads): the database's saveThreads, its
\* rejection caught and read as false, or the flat store's setItem, which
\* can throw; importData returns true whatever saveThreads returned
Manager_SaveThreads(p) ==
  /\ Tk(p).pc = "sm_saveThreads"
  /\ \E using \in UsingAfterInit, fail \in BOOLEAN :
       LET engine == IF using = "true" THEN "local" ELSE "flat"
           ok == IF using = "true" THEN IdbSaveOutcome(Tk(p).work, fail) = "true"
                 ELSE ~fail
           t == [Tk(p) EXCEPT !.route = engine, !.io = @ \/ fail,
                              !.writes = IF ok THEN @ \cup {engine} ELSE @]
       IN /\ usingIndexedDB' = using
          /\ SetTask(p, Done(t, Returned(VBool(t.op = "sm_importData" \/ ok))))
          /\ idb' = IF using = "true" THEN IdbAfterSave(Tk(p).work, fail) ELSE idb
          /\ flat' = IF using = "false" /\ ok THEN Tk(p).work ELSE flat
  /\ idbHandle' = HandleAfterInit
  /\ UNCHANGED <<remote, idbAvailable, settings, currentUser, authQueue, currentStorage,
                 clock, calls>>

\* ---- StorageManager.init
\* isIndexedDBAvailable(): true when the open and testStorage()'s probe write
\* and read both succeed
ProbeResults == IF InitOk THEN {"true", "false"} ELSE {"false"}

\* the init() called when the module is loaded, past its check of the cached
\* choice: its await of isIndexedDBAvailable() ends and it stores the result
Manager_Init_Probe(p) ==
  /\ Tk(p).pc = "sm_probe"
  /\ \E using \in ProbeResults :
       /\ usingIndexedDB' = using
       /\ SetTask(p, Done(Tk(p), Returned(VBool(TRUE))))
  /\ idbHandle' = HandleAfterInit
  /\ UNCHANGED <<idb, remote, idbAvailable, settings, currentUser, authQueue, currentStorage,
                 clock, flat, calls>>

\* ---- StorageManager.deleteThread
\* IndexedDBStorage.deleteThread: store.delete(threadId) succeeds whether or
\* not the key is stored; a failed open or request is read as false
IdbDelete(store, id) == [i \in (DOMAIN store) \ {id} |-> store[i]]

\* threads.filter(thread => thread.id !== threadId)
FlatWithout(list, id) == SelectSeq(list, LAMBDA r : ~Has(r, "id") \/ r.id # id)

Manager_DeleteThread_Start(p, id) ==
  /\ Tk(p).pc = "idle"
  /\ calls < MaxCalls
  /\ calls' = calls + 1
  /\ SetTask(p, [Begin("sm_deleteThread", id, EmptyObj, <<>>, 0)
                   EXCEPT !.pc = "sm_deleteThread", !.route = "manager",
                          !.route0 = "manager"])
  /\ UNCHANGED <<idb, idbHandle, remote, env>>

\* await StorageManager.init(), then the database's deleteThread, or the
\* flat store's getThreads and filter, up to the await of saveThreads
Manager_DeleteThread(p) ==
  /\ Tk(p).pc = "sm_deleteThread"
  /\ \E using \in UsingAfterInit, fail \in BOOLEAN :
       LET engine == IF using = "true" THEN "local" ELSE "flat"
           ok == InitOk /\ ~fail
           filtered == FlatWithout(flat, Tk(p).id)
           t == [Tk(p) EXCEPT !.route = engine,
                              !.reads = IF using = "true" THEN @ ELSE @ \cup {engine},
                              !.writes = IF using = "true" /\ ok THEN @ \cup {engine} ELSE @,
                              !.io = @ \/ (using = "true" /\ fail)]
       IN /\ usingIndexedDB' = using
          /\ SetTask(p, IF using = "true" THEN Done(t, Returned(VBool(ok)))
                        ELSE IF Len(filtered) = Len(flat)
                        THEN Done(t, Returned(VBool(FALSE)))
                        ELSE [t EXCEPT !.pc = "sm_saveThreads", !.work = filtered])
          /\ idb' = IF using = "true" /\ ok THEN IdbDelete(idb, Tk(p).id) ELSE idb
  /\ idbHandle' = HandleAfterInit
  /\ UNCHANGED <<remote, idbAvailable, settings, currentUser, authQueue, currentStorage,
                 clock, flat, calls>>

\* ---- StorageDebug.runDiagnostics
\* the thread of the persistence test
DebugId == "_debug_thread"
DebugThread(now) == [id |-> DebugId, title |-> "Test Thread", createdAt |-> now]

\* results.tests.push({name, passed, ...}); a step that counts clears
\* results.success when it did not pass
Recorded(t, name, passed, counts) ==
  [t EXCEPT !.work = Append(@, [name |-> name, passed |-> passed]),
            !.obj = [@ EXCEPT !.success = @ /\ (passed \/ ~counts)]]

\* results.tests.filter(t => !t.passed).map(t => t.name)
FailedNames(tests) ==
  LET failed == SelectSeq(tests, LAMBDA e : ~e.passed)
  IN [n \in 1..Len(failed) |-> failed[n].name]

\* the summary: all passed, or the names of the entries that did not pass
Summary(success, tests) ==
  IF success THEN [kind |-> "allPassed"]
  ELSE [kind |-> "failed", names |-> FailedNames(tests)]

RunDiagnostics_Start(p) ==
  /\ Tk(p).pc = "idle"
  /\ calls < MaxCalls
  /\ calls' = calls + 1
  /\ SetTask(p, [Begin("runDiagnostics", "",
                       [success |-> TRUE, storageType |-> "unknown"], <<>>, 0)
                   EXCEPT !.pc = "rd_type", !.route = "manager", !.route0 = "manager"])
  /\ UNCHANGED <<idb, idbHandle, remote, env>>

\* await StorageManager.getStorageType()
RunDiagnostics_StorageType(p) ==
  /\ Tk(p).pc = "rd_type"
  /\ \E using \in UsingAfterInit :
       LET engine == IF using = "true" THEN "local" ELSE "flat"
           t == [Tk(p) EXCEPT !.route = engine,
                              !.obj = [@ EXCEPT !.storageType =
                                         IF using = "true" THEN "IndexedDB"
                                         ELSE "localStorage"]]
       IN /\ usingIndexedDB' = using
          /\ SetTask(p, [Recorded(t, "Storage type detection", TRUE, TRUE)
                           EXCEPT !.pc = "rd_avail"])
  /\ idbHandle' = HandleAfterInit
  /\ UNCHANGED <<idb, remote, idbAvailable, settings, currentUser, authQueue, currentStorage,
                 clock, flat, calls>>

\* Test 1, await StorageManager.testStorage(): isAvailable
RunDiagnostics_Availability(p) ==
  /\ Tk(p).pc = "rd_avail"
  /\ \E fail \in BOOLEAN :
       LET isAvailable == ~fail /\ (usingIndexedDB = "true" => InitOk)
           t == [Tk(p) EXCEPT !.io = @ \/ fail]
       IN SetTask(p, [Recorded(t, "availability", isAvailable, TRUE)
                        EXCEPT !.pc = "rd_rw"])
  /\ idbHandle' = IF usingIndexedDB = "true" THEN HandleAfterInit ELSE idbHandle
  /\ UNCHANGED <<idb, remote, env, calls>>

\* Test 2, the write and read test: IndexedDBStorage.testStorage()'s
\* isWorking, or the flat store's setItem, getItem and removeItem
RunDiagnostics_WriteRead(p) ==
  /\ Tk(p).pc = "rd_rw"
  /\ \E fail \in BOOLEAN :
       LET testPassed == ~fail /\ (usingIndexedDB = "true" => InitOk)
           t == [Tk(p) EXCEPT !.io = @ \/ fail]
       IN SetTask(p, [Recorded(t, "Write and read test", testPassed, TRUE)
                        EXCEPT !.pc = "rd_threads"])
  /\ idbHandle' = IF usingIndexedDB = "true" THEN HandleAfterInit ELSE idbHandle
  /\ UNCHANGED <<idb, remote, env, calls>>

\* Test 3, await StorageManager.getThreads(): always an array
RunDiagnostics_Threads(p) ==
  /\ Tk(p).pc = "rd_threads"
  /\ \E fail \in BOOLEAN :
       LET t == [Tk(p) EXCEPT !.io = @ \/ (usingIndexedDB = "true" /\ fail),
                              !.reads = @ \cup {Tk(p).route}]
       IN SetTask(p, [Recorded(t, "Existing threads data", TRUE, TRUE)
                        EXCEPT !.pc = "rd_space"])
  /\ idbHandle' = IF usingIndexedDB = "true" THEN HandleAfterInit ELSE idbHandle
  /\ UNCHANGED <<idb, remote, env, calls>>

\* Test 4, await StorageManager.getStorageInfo(): not checked for the
\* database; for the flat store, no error and more than 100 KB remaining
RunDiagnostics_Space(p) ==
  /\ Tk(p).pc = "rd_space"
  /\ \E hasSpace \in BOOLEAN :
       LET passed == usingIndexedDB = "true" \/ hasSpace
       IN SetTask(p, [Recorded(Tk(p), "Storage space", passed, TRUE)
                        EXCEPT !.pc = "rd_save"])
  /\ idbHandle' = IF usingIndexedDB = "true" THEN HandleAfterInit ELSE idbHandle
  /\ UNCHANGED <<idb, remote, env, calls>>

\* Test 5, await StorageManager.saveThread(testThread)
RunDiagnostics_SaveThread(p) ==
  /\ Tk(p).pc = "rd_save"
  /\ \E fail \in BOOLEAN :
       LET saveSuccess == ~fail /\ (usingIndexedDB = "true" => InitOk)
           t == [Tk(p) EXCEPT !.io = @ \/ fail,
                              !.writes = IF saveSuccess THEN @ \cup {Tk(p).route} ELSE @]
       IN /\ SetTask(p, IF saveSuccess THEN [t EXCEPT !.pc = "rd_get"]
                        ELSE [Recorded(t, "Data persistence test", FALSE, TRUE)
                                EXCEPT !.pc = "rd_alt"])
          /\ idb' = IF saveSuccess /\ usingIndexedDB = "true"
                    THEN IdbPut(idb, DebugThread(clock)) ELSE idb
          /\ flat' = IF saveSuccess /\ usingIndexedDB # "true"
                     THEN Upsert(flat, DebugId, DebugThread(clock)) ELSE flat
  /\ idbHandle' = IF usingIndexedDB = "true" THEN HandleAfterInit ELSE idbHandle
  /\ UNCHANGED <<remote, idbAvailable, settings, currentUser, authQueue, currentStorage,
                 clock, usingIndexedDB, calls>>

\* await StorageManager.getThreadById(testThreadId)
RunDiagnostics_GetThreadById(p) ==
  /\ Tk(p).pc = "rd_get"
  /\ \E fail \in BOOLEAN :
       LET r == ManagerGetThreadById(usingIndexedDB, DebugId, fail)
           testPassed == r.val.t = "obj" /\ r.val.o.id = DebugId
           t == [Tk(p) EXCEPT !.io = @ \/ (usingIndexedDB = "true" /\ fail),
                              !.reads = @ \cup {Tk(p).route}]
       IN SetTask(p, [Recorded(t, "Data persistence test", testPassed, TRUE)
                        EXCEPT !.pc = "rd_delete"])
  /\ idbHandle' = IF usingIndexedDB = "true" THEN HandleAfterInit ELSE idbHandle
  /\ UNCHANGED <<idb, remote, env, calls>>

\* await StorageManager.deleteThread(testThreadId), its result not looked at
RunDiagnostics_DeleteThread(p) ==
  /\ Tk(p).pc = "rd_delete"
  /\ \E fail \in BOOLEAN :
       LET ok == ~fail /\ (usingIndexedDB = "true" => InitOk)
           t == [Tk(p) EXCEPT !.io = @ \/ fail]
       IN /\ SetTask(p, [t EXCEPT !.pc = "rd_alt"])
          /\ idb' = IF ok /\ usingIndexedDB = "true" THEN IdbDelete(idb, DebugId) ELSE idb
          /\ flat' = IF ok /\ usingIndexedDB # "true" THEN FlatWithout(flat, DebugId)
                     ELSE flat
  /\ idbHandle' = IF usingIndexedDB = "true" THEN HandleAfterInit ELSE idbHandle
  /\ UNCHANGED <<remote, idbAvailable, settings, currentUser, authQueue, currentStorage,
                 clock, usingIndexedDB, calls>>

\* Test 6, 'localStorage' in window or 'indexedDB' in window: recorded, but
\* results.success is left as it is; then the summary
RunDiagnostics_Alternative(p) ==
  /\ Tk(p).pc = "rd_alt"
  /\ \E inWindow \in BOOLEAN :
       LET t == Recorded(Tk(p), "alternative availability", inWindow, FALSE)
       IN SetTask(p, Done(t, Returned(VObj(
            [success |-> t.obj.success, tests |-> t.work,
             storageType |-> t.obj.storageType,
             summary |-> Summary(t.obj.success, t.work)]))))
  /\ UNCHANGED <<idb, idbHandle, remote, env, calls>>

\* ---- StorageDebug.performMaintenance
PerformMaintenance_Start(p) ==
  /\ Tk(p).pc = "idle"
  /\ calls < MaxCalls
  /\ calls' = calls + 1
  /\ SetTask(p, [Begin("performMaintenance", "", EmptyObj, <<>>, 0)
                   EXCEPT !.pc = "pm_type", !.route = "manager", !.route0 = "manager"])
  /\ UNCHANGED <<idb, idbHandle, remote, env>>

\* await StorageManager.getStorageType()
PerformMaintenance_StorageType(p) ==
  /\ Tk(p).pc = "pm_type"
  /\ \E using \in UsingAfterInit :
       /\ usingIndexedDB' = using
       /\ SetTask(p, [Tk(p) EXCEPT !.pc = "pm_test",
                                   !.route = IF using = "true" THEN "local" ELSE "flat"])
  /\ idbHandle' = HandleAfterInit
  /\ UNCHANGED <<idb, remote, idbAvailable, settings, currentUser, authQueue,
                 currentStorage, clock, flat, calls>>

\* await StorageManager.testStorage(): only its outcome is logged
PerformMaintenance_TestStorage(p) ==
  /\ Tk(p).pc = "pm_test"
  /\ \E fail \in BOOLEAN :
       SetTask(p, [Tk(p) EXCEPT !.pc = "pm_getThreads", !.io = @ \/ fail])
  /\ idbHandle' = IF usingIndexedDB = "true" THEN HandleAfterInit ELSE idbHandle
  /\ UNCHANGED <<idb, remote, env, calls>>

\* await StorageManager.getThreads(), the filter of the records that are
\* objects with an id, up to the await of StorageManager.saveThreads(threads)
PerformMaintenance_GetThreads(p) ==
  /\ Tk(p).pc = "pm_getThreads"
  /\ \E fail \in BOOLEAN :
       LET threads == ManagerGetThreads(usingIndexedDB, fail)
       IN SetTask(p, [Tk(p) EXCEPT !.pc = "sm_saveThreads",
                                   !.list = threads, !.work = Cleaned(threads),
                                   !.reads = @ \cup {Tk(p).route},
                                   !.io = @ \/ (usingIndexedDB = "true" /\ fail)])
  /\ idbHandle' = IF usingIndexedDB = "true" THEN HandleAfterInit ELSE idbHandle
  /\ UNCHANGED <<idb, remote, env, calls>>

\* ---- StorageDebug.repairStorage
RepairStorage_Start(p) ==
  /\ Tk(p).pc = "idle"
  /\ calls < MaxCalls
  /\ calls' = calls + 1
  /\ SetTask(p, [Begin("repairStorage", "", [success |-> TRUE], <<>>, 0)
                   EXCEPT !.pc = "rs_type", !.route = "manager", !.route0 = "manager"])
  /\ UNCHANGED <<idb, idbHandle, remote, env>>

\* await StorageManager.getStorageType(); the history keeps what the engine
\* holds when the repair begins
RepairStorage_StorageType(p) ==
  /\ Tk(p).pc = "rs_type"
  /\ \E using \in UsingAfterInit :
       /\ usingIndexedDB' = using
       /\ SetTask(p, [Tk(p) EXCEPT
            !.pc = "rs_getThreads",
            !.route = IF using = "true" THEN "local" ELSE "flat",
            !.arg = [threads |-> IF using = "true" THEN IdbGetAll(idb) ELSE flat,
                     settings |-> settings]])
  /\ idbHandle' = HandleAfterInit
  /\ UNCHANGED <<idb, remote, idbAvailable, settings, currentUser, authQueue,
                 currentStorage, clock, flat, calls>>

\* 1. await StorageManager.getThreads(), which answers a failed read with [],
\* and the filter of the valid threads
RepairStorage_GetThreads(p) ==
  /\ Tk(p).pc = "rs_getThreads"
  /\ \E fail \in BOOLEAN :
       LET threads == ManagerGetThreads(usingIndexedDB, fail)
       IN SetTask(p, [Tk(p) EXCEPT
            !.pc = IF usingIndexedDB = "true" THEN "rs_clear" ELSE "rs_flat",
            !.list = threads, !.work = Cleaned(threads),
            !.reads = @ \cup {Tk(p).route},
            !.io = @ \/ (usingIndexedDB = "true" /\ fail)])
  /\ idbHandle' = IF usingIndexedDB = "true" THEN HandleAfterInit ELSE idbHandle
  /\ UNCHANGED <<idb, remote, env, calls>>

\* the catch of the database branch: success is false, and localStorage is
\* cleared and given the valid threads, unless that throws in its turn
FallenBack(t) == [t EXCEPT !.pc = "rs_verify", !.obj = [success |-> FALSE], !.io = TRUE]

\* 2. await IndexedDBStorage.clearAllData(): one transaction clears the
\* threads and the settings; false when the database cannot be opened
RepairStorage_ClearAllData(p) ==
  /\ Tk(p).pc = "rs_clear"
  /\ \E fail, fallback \in BOOLEAN :
       LET cleared == InitOk /\ ~fail
           caught == InitOk /\ fail
       IN /\ SetTask(p, IF caught THEN FallenBack(Tk(p))
                        ELSE [Tk(p) EXCEPT !.pc = "rs_init"])
          /\ idb' = IF cleared THEN EmptyObj ELSE idb
          /\ flat' = IF caught /\ fallback THEN Tk(p).work ELSE flat
          /\ settings' = [local |-> IF cleared THEN EmptyObj ELSE settings.local,
                          flat |-> IF caught /\ fallback THEN <<>> ELSE settings.flat]
  /\ idbHandle' = HandleAfterInit
  /\ UNCHANGED <<remote, idbAvailable, currentUser, authQueue, currentStorage,
                 clock, usingIndexedDB, calls>>

\* await IndexedDBStorage.init(), which rejects when the open fails
RepairStorage_Init(p) ==
  /\ Tk(p).pc = "rs_init"
  /\ \E fallback \in BOOLEAN :
       /\ SetTask(p, IF ~InitOk THEN FallenBack(Tk(p))
                     ELSE IF Tk(p).work = <<>> THEN [Tk(p) EXCEPT !.pc = "rs_verify"]
                     ELSE [Tk(p) EXCEPT !.pc = "rs_save"])
       /\ flat' = IF ~InitOk /\ fallback THEN Tk(p).work ELSE flat
       /\ settings' = [settings EXCEPT
                         !.flat = IF ~InitOk /\ fallback THEN <<>> ELSE @]
  /\ idbHandle' = HandleAfterInit
  /\ UNCHANGED <<idb, remote, idbAvailable, currentUser, authQueue, currentStorage,
                 clock, usingIndexedDB, calls>>

\* await IndexedDBStorage.saveThreads(validThreads)
RepairStorage_SaveThreads(p) ==
  /\ Tk(p).pc = "rs_save"
  /\ \E fail, fallback \in BOOLEAN :
       LET o == IdbSaveOutcome(Tk(p).work, fail)
           t == [Tk(p) EXCEPT !.writes = IF o = "true" THEN @ \cup {"local"} ELSE @]
       IN /\ SetTask(p, IF o = "reject" THEN FallenBack(t)
                        ELSE [t EXCEPT !.pc = "rs_verify",
                                       !.obj = [success |-> @.success /\ o = "true"]])
          /\ idb' = IdbAfterSave(Tk(p).work, fail)
          /\ flat' = IF o = "reject" /\ fallback THEN Tk(p).work ELSE flat
          /\ settings' = [settings EXCEPT
                            !.flat = IF o = "reject" /\ fallback THEN <<>> ELSE @]
  /\ idbHandle' = HandleAfterInit
  /\ UNCHANGED <<remote, idbAvailable, currentUser, authQueue, currentStorage,
                 clock, usingIndexedDB, calls>>

\* the flat store's branch: localStorage.clear() and setItem('threads', ...)
\* with the valid threads, or nothing when clear() throws
RepairStorage_LocalStorage(p) ==
  /\ Tk(p).pc = "rs_flat"
  /\ \E fail \in BOOLEAN :
       /\ SetTask(p, [Tk(p) EXCEPT !.pc = "rs_verify", !.io = @ \/ fail,
                                   !.writes = IF fail THEN @ ELSE @ \cup {"flat"},
                                   !.obj = [success |-> @.success /\ ~fail]])
       /\ flat' = IF fail THEN flat ELSE Tk(p).work
       /\ settings' = [settings EXCEPT !.flat = IF fail THEN @ ELSE <<>>]
  /\ UNCHANGED <<idb, idbHandle, remote, idbAvailable, currentUser, authQueue,
                 currentStorage, clock, usingIndexedDB, calls>>

\* 3. await StorageManager.testStorage(), and the result
RepairStorage_Verify(p) ==
  /\ Tk(p).pc = "rs_verify"
  /\ \E fail \in BOOLEAN :
       LET verified == ~fail /\ (usingIndexedDB = "true" => InitOk)
       IN SetTask(p, Done([Tk(p) EXCEPT !.io = @ \/ fail],
                          Returned(VBool(Tk(p).obj.success /\ verified))))
  /\ idbHandle' = IF usingIndexedDB = "true" THEN HandleAfterInit ELSE idbHandle
  /\ UNCHANGED <<idb, remote, env, calls>>

\* ---- StorageManager.saveSettings
SettingsInputs == {[theme |-> "dark"]}

Manager_SaveSettings_Start(p, s) ==
  /\ Tk(p).pc = "idle"
  /\ calls < MaxCalls
  /\ calls' = calls + 1
  /\ SetTask(p, [Begin("sm_saveSettings", "", s, <<>>, 0)
                   EXCEPT !.pc = "sm_saveSettings",
                          !.route = "manager", !.route0 = "manager"])
  /\ UNCHANGED <<idb, idbHandle, remote, env>>

\* IndexedDBStorage.saveSettings puts {id: 'app-settings', data, updatedAt}
\* into the settings store, its failed open read as false and its rejection
\* caught by the manager; the flat store sets the item 'settings'
Manager_SaveSettings(p) ==
  /\ Tk(p).pc = "sm_saveSettings"
  /\ \E using \in UsingAfterInit, fail \in BOOLEAN :
       LET engine == IF using = "true" THEN "local" ELSE "flat"
           ok == IF using = "true" THEN InitOk /\ ~fail ELSE ~fail
           settingsObj == [id |-> "app-settings", data |-> Tk(p).obj, updatedAt |-> clock]
       IN /\ usingIndexedDB' = using
          /\ settings' = IF ~ok THEN settings
                         ELSE IF using = "true"
                         THEN [settings EXCEPT
                                 !.local = [i \in {"app-settings"} |-> settingsObj]]
                         ELSE [settings EXCEPT !.flat = <<Tk(p).obj>>]
          /\ SetTask(p, Done([Tk(p) EXCEPT !.route = engine, !.io = @ \/ fail],
                             Returned(VBool(ok))))
  /\ idbHandle' = HandleAfterInit
  /\ UNCHANGED <<idb, remote, idbAvailable, currentUser, authQueue, currentStorage,
                 clock, flat, calls>>

\* ---- the caller takes the result
Finish(p) ==
  /\ Tk(p).pc = "done"
  /\ SetTask(p, IdleTask)
  /\ UNCHANGED <<idb, idbHandle, remote, env>>
  /\ UNCHANGED calls

\* lists handed to importThreads: two threads, and one
ImportInputs == {<<T1a, T2>>}
\* an import none of whose threads is stored yet
ImportNewInputs == {<<T2>>}

Call(p) ==
  \/ GetThreads_Start(p)
  \/ \E id \in Ids : GetThread_Start(p, id)
  \/ \E thread \in ThreadInputs : SaveThread_Start(p, thread)
  \/ \E threads \in ListInputs : SaveThreads_Start(p, threads)
  \/ \E id \in Ids, updates \in UpdateInputs : UpdateThread_Start(p, id, updates)
  \/ \E id \in Ids : DeleteThread_Start(p, id)
  \/ \E threads \in ImportInputs : ImportThreads_Start(p, threads)
  \/ \E id \in AnnIds, data \in AnnInputs : UpdateAnnotation_Start(p, id, data)
  \/ \E id \in AnnIds, index \in IndexInputs : DeleteAnnotation_Start(p, id, index)
  \/ \E id \in AnnIds, data \in AnnInputs : Manager_UpdateAnnotation_Start(p, id, data)
  \/ \E id \in AnnIds, index \in IndexInputs : Manager_DeleteAnnotation_Start(p, id, index)

Step(p) ==
  \/ GetThreads_IdbGetThreads(p)
  \/ GetThreads_GetDocs(p)
  \/ GetThread_IdbGetThreadById(p)
  \/ GetThread_GetDoc(p)
  \/ SaveThread_IdbGetThreads(p)
  \/ SaveThread_IdbSaveThreads(p)
  \/ SaveThread_SetDoc(p)
  \/ SaveThreads_IdbSaveThreads(p)
  \/ SaveThreads_SetDoc(p)
  \/ UpdateThread_IdbGetThreadById(p)
  \/ UpdateThread_IdbGetThreads(p)
  \/ UpdateThread_IdbSaveThreads(p)
  \/ UpdateThread_GetDoc(p)
  \/ UpdateThread_UpdateDoc(p)
  \/ DeleteThread_IdbGetThreads(p)
  \/ DeleteThread_IdbSaveThreads(p)
  \/ DeleteThread_GetDoc(p)
  \/ DeleteThread_DeleteDoc(p)
  \/ ImportThreads_IdbGetThreads(p)
  \/ ImportThreads_IdbSaveThreads(p)
  \/ ImportThreads_SetDoc(p)
  \/ Manager_GetThreadById(p)
  \/ Manager_SaveThread(p)
  \/ Finish(p)

Environment ==
  \/ Tick
  \/ \E u \in Users : SignIn(u)
  \/ SignOut
  \/ AuthStateChanged

Next ==
  \/ Environment
  \/ \E p \in Procs : Call(p) \/ Step(p)

Spec == Init /\ [][Next]_vars

\* ======================================================== properties
\* the threads of an engine by id, now and after the step
StoreAt(engine) ==
  IF engine = "local" THEN idb ELSE IF engine = "remote" THEN remote
  ELSE StoreOf(Cleaned(flat))
StoreAtNext(engine) ==
  IF engine = "local" THEN idb' ELSE IF engine = "remote" THEN remote'
  ELSE StoreOf(Cleaned(flat'))

FacadeOps ==
  {"getThreads", "getThread", "saveThread", "saveThreads", "updateThread",
   "deleteThread", "importThreads", "updateAnnotation", "deleteAnnotation"}
AnnotationOps == {"updateAnnotation", "deleteAnnotation"}
ManagerOps == {"sm_updateAnnotation", "sm_deleteAnnotation"}

FlagDerived(thread) ==
  Has(thread, "isAnnotated") /\ thread.isAnnotated = (Len(AsArray(thread)) > 0)

\* the key the call's write is stored under: the document the call named, or,
\* in the database, which keys a record by its id field, the id of the
\* record the call wrote
WrittenKey(t) ==
  IF t.route = "local" /\ Has(t.obj, "id") THEN t.obj.id ELSE t.id

\* C1: when an updateAnnotation or deleteAnnotation call of the facade or of
\* StorageManager returns true, the thread is stored in the engine the call
\* worked on with isAnnotated true exactly when its annotations list is not
\* empty; a facade call has written it there.
C1_DerivedFlag ==
  \A p \in Procs :
    LET t == Tk(p)
    IN (/\ t.op \in AnnotationOps \cup ManagerOps
        /\ t.pc = "done" /\ t.res = Returned(VBool(TRUE)))
         => /\ t.op \in AnnotationOps => t.writes = {t.route}
            /\ WrittenKey(t) \in DOMAIN StoreAt(t.route)
            /\ FlagDerived(StoreAt(t.route)[WrittenKey(t)])

\* the only annotation of a stored thread was deleted: the flag went false
C1_Witness ==
  \E p \in Procs :
    /\ Tk(p).op = "deleteAnnotation" /\ Tk(p).pc = "done"
    /\ Tk(p).res = Returned(VBool(TRUE))
    /\ Tk(p).idx = 0 /\ Tk(p).route = "local"
    /\ "t1" \in DOMAIN idb
    /\ idb["t1"] = Spread(T1b, [annotations |-> Arr(<<>>), isAnnotated |-> FALSE])

\* C2: a deleteAnnotation whose index is negative or not below the length of
\* the list leaves the thread's annotations as they were.
C2_OutOfRangeIsNoop ==
  [][\A p \in Procs :
       LET t == Tk(p)
       IN (/\ t.op = "deleteAnnotation"
           /\ t.pc \in {"ut_idbSaveThreads", "ut_updateDoc"}
           /\ tasks'[p].pc = "done" /\ tasks'[p].res.kind = "returned"
           /\ t.route = t.route0
           /\ t.id \in DOMAIN StoreAt(t.route)
           /\ (t.idx < 0 \/ t.idx >= Len(AsArray(StoreAt(t.route)[t.id]))))
          => /\ t.id \in DOMAIN StoreAtNext(t.route)
             /\ AsArray(StoreAtNext(t.route)[t.id]) = AsArray(StoreAt(t.route)[t.id])]_vars

\* C3: a deleteThread that finds no thread of that id in the active engine
\* returns false, raises nothing and changes neither collection.
C3_DeleteAbsentReturnsFalse ==
  [][\A p \in Procs :
       LET t == Tk(p)
       IN (/\ t.op = "deleteThread"
           /\ t.pc \in {"dt_idbGetThreads", "dt_getDoc"}
           /\ tasks'[p].pc = "done" /\ ~tasks'[p].io
           /\ t.id \notin DOMAIN StoreAt(t.route))
          => /\ tasks'[p].res = Returned(VBool(FALSE))
             /\ idb' = idb /\ remote' = remote]_vars

TimestampFields == {"createdAt", "updatedAt"}
StampFields == {"lastModifiedBy", "lastModifiedByUid"}

\* what a getThread of the task's thread would return now
ReadBack(t) ==
  IF t.route = "local" THEN IdbGetThreadById(t.id, FALSE)
  ELSE RemoteGetThread(t.id, FALSE)

SavedThread(p) ==
  Tk(p).op = "saveThread" /\ Tk(p).pc = "done" /\ Tk(p).res.kind = "returned"

\* C4 as the specification states it: a thread read back after saveThread
\* equals the thread saved, timestamp fields aside, on both engines.
C4_RoundTripExact ==
  \A p \in Procs :
    SavedThread(p)
      => /\ ReadBack(Tk(p)).kind = "returned"
         /\ ReadBack(Tk(p)).val.t = "obj"
         /\ Without(ReadBack(Tk(p)).val.o, TimestampFields)
              = Without(Tk(p).arg, TimestampFields)

\* What does hold of the round trip: the thread read back equals the thread
\* saved, timestamp fields aside, except that the Remote engine also stamps it
\* with the session user's lastModifiedBy and lastModifiedByUid, and only
\* while the Local engine's embedded database is available.
C4_RoundTripStamped ==
  \A p \in Procs :
    LET t == Tk(p)
        got == ReadBack(t)
    IN (SavedThread(p) /\ (t.route = "local" => InitOk))
         => /\ got.kind = "returned"
            /\ got.val.t = "obj"
            /\ IF t.route = "local"
               THEN Without(got.val.o, TimestampFields) = Without(t.arg, TimestampFields)
               ELSE /\ Without(got.val.o, TimestampFields \cup StampFields)
                         = Without(t.arg, TimestampFields \cup StampFields)
                    /\ TimestampFields \cup StampFields \subseteq DOMAIN got.val.o
                    /\ \E u \in Users : /\ got.val.o.lastModifiedBy = Email(u)
                                        /\ got.val.o.lastModifiedByUid = Uid(u)

\* a thread saved on the Remote engine carries the session user's stamp
C4_Witness ==
  \E p \in Procs :
    /\ SavedThread(p) /\ Tk(p).route = "remote" /\ Tk(p).arg = T2
    /\ "t2" \in DOMAIN remote
    /\ remote["t2"].lastModifiedBy = Email("u1")
    /\ Without(remote["t2"], TimestampFields \cup StampFields) = T2

\* the step in which an updateAnnotation commits: the facade's, when it
\* stayed on one engine, or StorageManager's
AppendCommits(p) ==
  /\ \/ Tk(p).op = "updateAnnotation" /\ Tk(p).route = Tk(p).route0
     \/ Tk(p).op = "sm_updateAnnotation"
  /\ Tk(p).pc \in {"ut_idbSaveThreads", "ut_updateDoc", "sm_saveThread"}
  /\ tasks'[p].pc = "done" /\ tasks'[p].res = Returned(VBool(TRUE))
  /\ Tk(p).id \in DOMAIN StoreAt(Tk(p).route)

WithId(list) == SelectSeq(list, LAMBDA r : "id" \in DOMAIN r)

\* C6: a Local saveThreads whose list holds a record without an id, with the
\* database open and no request failing, returns true and leaves in the store
\* exactly the records that have an id.
C6_MalformedDropped ==
  \A p \in Procs :
    LET t == Tk(p)
        valid == WithId(t.list)
    IN (/\ t.op = "saveThreads" /\ t.pc = "done" /\ t.route = "local"
        /\ InitOk /\ ~t.io
        /\ Len(valid) < Len(t.list)
        /\ \A m, n \in 1..Len(valid) : m # n => valid[m].id # valid[n].id)
         => /\ t.res = Returned(VBool(TRUE))
            /\ DOMAIN idb = {valid[n].id : n \in 1..Len(valid)}
            /\ \A n \in 1..Len(valid) : idb[valid[n].id] = valid[n]

\* two valid records and one without an id were saved: two are stored
C6_Witness ==
  \E p \in Procs :
    /\ Tk(p).op = "saveThreads" /\ Tk(p).pc = "done" /\ Tk(p).route = "local"
    /\ Tk(p).list = <<T1a, NoIdRec, T2>>
    /\ Tk(p).res = Returned(VBool(TRUE))
    /\ DOMAIN idb = {"t1", "t2"} /\ idb["t1"] = T1a /\ idb["t2"] = T2

\* the steps in which the facade calls a function of the Remote engine
CallsRemote(p) ==
  /\ currentStorage = "remote"
  /\ tasks'[p] # tasks[p]
  /\ tasks'[p].op \in FacadeOps
  /\ \/ Tk(p).pc = "idle"
     \/ /\ Tk(p).pc \in {"gt_idbGetThreadById", "gt_getDoc"}
        /\ Tk(p).op \in AnnotationOps
        /\ tasks'[p].res \notin {Threw(IoError), Threw(FacadeNotFound)}

\* the steps in which saveThreads' loop calls saveThread for the next thread
LoopCallsRemote(p) ==
  /\ Tk(p).pc = "sts_setDoc"
  /\ tasks'[p] # tasks[p]
  /\ ~tasks'[p].io
  /\ Tk(p).idx < Len(Tk(p).list)

\* C7: a function of the Remote engine called while no session exists ends
\* at once in the authentication error (which saveThreads turns into false):
\* the call issues no request and does not change the remote collection.
C7_NoSessionNoRequest ==
  [][\A p \in Procs :
       (currentUser = NoUser /\ (CallsRemote(p) \/ LoopCallsRemote(p)))
         => /\ tasks'[p].pc = "done"
            /\ tasks'[p].res = IF tasks'[p].op = "saveThreads"
                               THEN Returned(VBool(FALSE)) ELSE Threw(AuthError)
            /\ tasks'[p].net = Tk(p).net
            /\ CallsRemote(p) => remote' = remote]_vars

\* a remote saveThread called without a session ended in the error
C7_Witness ==
  \E p \in Procs :
    /\ Tk(p).op = "saveThread" /\ Tk(p).pc = "done"
    /\ Tk(p).route0 = "remote" /\ ~Tk(p).hadSession
    /\ Tk(p).res = Threw(AuthError) /\ Tk(p).net = 0 /\ Tk(p).writes = {}

\* C8: every facade operation is routed to the Remote engine exactly when a
\* session was active at the moment it started.
C8_RoutedBySession ==
  \A p \in Procs :
    Tk(p).op \in FacadeOps => ((Tk(p).route0 = "remote") <=> Tk(p).hadSession)

\* C9: a facade operation reads and writes only the engine that was active
\* when it started.
C9_OneEnginePerCall ==
  \A p \in Procs :
    Tk(p).op \in FacadeOps => (Tk(p).reads \cup Tk(p).writes) \subseteq {Tk(p).route0}

ReadOps == {"getThreads", "getThread"}
EmptyRead(op) == IF op = "getThreads" THEN Returned(VList(<<>>)) ELSE Returned(VNull)

\* C10 as the specification states it: getThreads and getThread never throw.
C10_ReadsNeverThrow ==
  \A p \in Procs :
    (Tk(p).op \in ReadOps /\ Tk(p).pc = "done") => Tk(p).res.kind = "returned"

\* C10: getThreads and getThread return the empty result only when the
\* embedded database cannot be opened; a failed request on either engine
\* and a missing session on the Remote engine reach the caller as the error.
C10_ReadFailures ==
  \A p \in Procs :
    LET t == Tk(p)
    IN (t.op \in ReadOps /\ t.pc = "done")
         => IF t.route0 = "remote"
            THEN /\ ~t.hadSession => t.res = Threw(AuthError)
                 /\ (t.hadSession /\ t.io) => t.res = Threw(IoError)
                 /\ (t.hadSession /\ ~t.io) => t.res.kind = "returned"
            ELSE /\ ~InitOk => t.res = EmptyRead(t.op)
                 /\ (InitOk /\ t.io) => t.res = Threw(IoError)
                 /\ (InitOk /\ ~t.io) => t.res.kind = "returned"

\* the database could not be opened and getThreads returned the empty list
C10_Witness ==
  \E p \in Procs :
    /\ Tk(p).op = "getThreads" /\ Tk(p).pc = "done" /\ Tk(p).route0 = "local"
    /\ ~InitOk /\ Tk(p).res = Returned(VList(<<>>))

\* the facade's write operations that report what they did
WriteOps ==
  {"saveThread", "updateThread", "deleteThread", "importThreads",
   "updateAnnotation", "deleteAnnotation"}

\* the call ended in something other than an error and other than false
ReportsSuccess(t) ==
  t.pc = "done" /\ t.res.kind = "returned" /\ t.res.val # VBool(FALSE)

\* C11: a facade write operation that reports success has applied its write
\* to the engine it addressed; when the engine's write fails the call returns
\* a failure value or throws.
C11_SuccessMeansWritten ==
  \A p \in Procs :
    (Tk(p).op \in WriteOps /\ ReportsSuccess(Tk(p))) => Tk(p).route \in Tk(p).writes

\* the operations that work on a stored thread, and the steps in which they
\* look the thread up
OnStoredOps == {"updateThread", "updateAnnotation", "deleteAnnotation"}
LookupPcs == {"ut_idbGetThreadById", "ut_getDoc", "gt_idbGetThreadById", "gt_getDoc"}
NotFoundErrors == {Threw(FacadeNotFound), Threw(RemoteNotFound)}

\* C12: updateThread, updateAnnotation and deleteAnnotation whose lookup finds
\* no thread of that id in the engine they address, the request itself not
\* failing, end in a not-found error, have written nothing and leave both
\* collections as they were: no thread is created.
C12_AbsentIdNotFound ==
  [][\A p \in Procs :
       LET t == Tk(p)
       IN (/\ t.op \in OnStoredOps /\ t.pc \in LookupPcs
           /\ tasks'[p] # t /\ ~tasks'[p].io
           /\ t.id \notin DOMAIN StoreAt(t.route))
          => /\ tasks'[p].pc = "done"
             /\ tasks'[p].res \in NotFoundErrors
             /\ tasks'[p].writes \cap {t.route} = {}
             /\ idb' = idb /\ remote' = remote]_vars

\* an updateThread for an id the remote collection does not hold ended in
\* 'Thread not found'
C12_Witness ==
  \E p \in Procs :
    /\ Tk(p).op \in OnStoredOps /\ Tk(p).pc = "done" /\ ~Tk(p).io
    /\ Tk(p).route = "remote" /\ Tk(p).hadSession
    /\ Tk(p).id = "t2" /\ "t2" \notin DOMAIN remote
    /\ Tk(p).res = Threw(RemoteNotFound) /\ Tk(p).writes = {}

\* ------------------------------------------- the two engines side by side
\* One request is issued twice, one call after the other: by caller "l" with
\* no session, so the facade serves it from the Local engine, and, after the
\* sign-in has reached the facade's observer, by caller "r", served from the
\* Remote engine.  Both engines start with the same thread.
PairProcs == {"l", "r"}

PairInit ==
  /\ idbAvailable = TRUE
  /\ idb = [i \in {"t1"} |-> T1a]
  /\ idbHandle = "null"
  /\ remote \in RemoteSeeds
  /\ currentUser = NoUser
  /\ authQueue = <<>>
  /\ currentStorage = "local"
  /\ clock = 1
  /\ tasks = [p \in PairProcs |-> IdleTask]
  /\ calls = 0
  /\ usingIndexedDB = "null"
  /\ flat = FlatSeed
  /\ settings = SettingsSeed(idbAvailable)

FacadeCall(p) ==
  \/ GetThreads_Start(p)
  \/ \E id \in Ids : GetThread_Start(p, id)
  \/ \E thread \in ThreadInputs : SaveThread_Start(p, thread)
  \/ \E threads \in ListInputs : SaveThreads_Start(p, threads)
  \/ \E id \in Ids, updates \in UpdateInputs : UpdateThread_Start(p, id, updates)
  \/ \E id \in Ids : DeleteThread_Start(p, id)
  \/ \E threads \in ImportInputs : ImportThreads_Start(p, threads)
  \/ \E id \in AnnIds, data \in AnnInputs : UpdateAnnotation_Start(p, id, data)
  \/ \E id \in AnnIds, index \in IndexInputs : DeleteAnnotation_Start(p, id, index)

FacadeStep(p) ==
  \/ GetThreads_IdbGetThreads(p)
  \/ GetThreads_GetDocs(p)
  \/ GetThread_IdbGetThreadById(p)
  \/ GetThread_GetDoc(p)
  \/ SaveThread_IdbGetThreads(p)
  \/ SaveThread_IdbSaveThreads(p)
  \/ SaveThread_SetDoc(p)
  \/ SaveThreads_IdbSaveThreads(p)
  \/ SaveThreads_SetDoc(p)
  \/ UpdateThread_IdbGetThreadById(p)
  \/ UpdateThread_IdbGetThreads(p)
  \/ UpdateThread_IdbSaveThreads(p)
  \/ UpdateThread_GetDoc(p)
  \/ UpdateThread_UpdateDoc(p)
  \/ DeleteThread_IdbGetThreads(p)
  \/ DeleteThread_IdbSaveThreads(p)
  \/ DeleteThread_GetDoc(p)
  \/ DeleteThread_DeleteDoc(p)
  \/ ImportThreads_IdbGetThreads(p)
  \/ ImportThreads_IdbSaveThreads(p)
  \/ ImportThreads_SetDoc(p)

\* the caller without a session
PairLocalCall ==
  /\ currentUser = NoUser /\ currentStorage = "local" /\ authQueue = <<>>
  /\ FacadeCall("l")

\* the user signs in once the first call has returned
PairSignIn ==
  /\ tasks["l"].pc = "done"
  /\ \E u \in Users : SignIn(u)

\* the caller with the session, once the observer has switched the engine
PairRemoteCall ==
  /\ tasks["l"].pc = "done"
  /\ currentUser # NoUser /\ currentStorage = "remote" /\ authQueue = <<>>
  /\ FacadeCall("r")

PairNext ==
  \/ PairLocalCall
  \/ PairSignIn
  \/ AuthStateChanged
  \/ PairRemoteCall
  \/ \E p \in PairProcs : FacadeStep(p)

SpecPair == PairInit /\ [][PairNext]_vars

\* two calls carry the same request
SameRequest(a, b) ==
  /\ a.op = b.op /\ a.id = b.id /\ a.arg = b.arg /\ a.list = b.list
  /\ a.op = "deleteAnnotation" => a.idx = b.idx

\* the fields in which the engines are allowed to differ
MetaFields ==
  TimestampFields \cup StampFields \cup {"importedBy", "importedByUid"}

\* C13: one request, served without any request failing from the Local
\* engine and from the Remote engine holding the same threads, has the same
\* outcome (success, or failure) and leaves the same threads stored, up to
\* timestamps and identity stamps.
C13_EnginesAgree ==
  LET l == tasks["l"]
      r == tasks["r"]
  IN (/\ l.pc = "done" /\ r.pc = "done" /\ SameRequest(l, r)
      /\ ~l.io /\ ~r.io)
       => /\ ReportsSuccess(l) <=> ReportsSuccess(r)
          /\ DOMAIN idb = DOMAIN remote
          /\ \A i \in DOMAIN idb :
               Without(idb[i], MetaFields) = Without(remote[i], MetaFields)

\* the step in which an updateThread commits
UpdateCommits(p) ==
  /\ Tk(p).op = "updateThread"
  /\ Tk(p).pc \in {"ut_idbSaveThreads", "ut_updateDoc"}
  /\ tasks'[p].pc = "done" /\ tasks'[p].res = Returned(VBool(TRUE))
  /\ Tk(p).route \in tasks'[p].writes

\* C14: after updateThread(id, updates) succeeds the thread stored under id
\* still carries that id, whatever updates holds, and the engine holds no id
\* it did not hold before.
C14_IdImmutable ==
  [][\A p \in Procs :
       UpdateCommits(p)
         => /\ Tk(p).id \in DOMAIN StoreAtNext(Tk(p).route)
            /\ StoreAtNext(Tk(p).route)[Tk(p).id].id = Tk(p).id
            /\ DOMAIN StoreAtNext(Tk(p).route) \subseteq DOMAIN StoreAt(Tk(p).route)]_vars

\* ------------------------------------------------ StorageManager alone
\* the storage debug panel's calls on StorageManager
ManagerCall(p) ==
  \/ \E id \in AnnIds, data \in AnnInputs : Manager_UpdateAnnotation_Start(p, id, data)
  \/ \E id \in AnnIds, index \in IndexInputs : Manager_DeleteAnnotation_Start(p, id, index)
  \/ \E threads \in ManagerSaveInputs : Manager_SaveThreads_Start(p, threads)
  \/ \E threads \in ManagerListInputs, replace \in BOOLEAN :
       Manager_ImportData_Start(p, threads, replace)
  \/ \E id \in Ids : Manager_DeleteThread_Start(p, id)

ManagerStep(p) ==
  \/ Manager_GetThreadById(p)
  \/ Manager_SaveThread(p)
  \/ Manager_ImportData_GetThreads(p)
  \/ Manager_SaveThreads(p)
  \/ Manager_DeleteThread(p)
  \/ Finish(p)

ManagerNext ==
  \/ Tick
  \/ \E p \in Procs : ManagerCall(p) \/ ManagerStep(p)

SpecManager == Init /\ [][ManagerNext]_vars

\* no two records of the list carry one id
UniqueIds(list) ==
  \A m, n \in 1..Len(list) :
    (m # n /\ Has(list[m], "id") /\ Has(list[n], "id")) => list[m].id # list[n].id

\* the documents of the remote collection, in the order of their keys
RemoteDocs == MapIds(SelectSeq(IdOrder, LAMBDA i : i \in DOMAIN remote), remote)

\* C15: no backend - the embedded database, the flat store, the remote
\* collection - ever holds two threads with the same id.
C15_UniquePerBackend ==
  /\ UniqueIds(IdbGetAll(idb))
  /\ UniqueIds(flat)
  /\ UniqueIds(RemoteDocs)

\* the step in which an importThreads call returns its list, the thread it
\* writes in that step (all of them, on the Local engine) having a fresh id
ImportCommits(p) ==
  /\ Tk(p).op = "importThreads"
  /\ Tk(p).pc \in {"it_idbSaveThreads", "it_setDoc"}
  /\ tasks'[p].pc = "done" /\ ReportsSuccess(tasks'[p])
  /\ IF Tk(p).route = "local"
     THEN \A n \in 1..Len(Tk(p).list) : Tk(p).list[n].id \notin DOMAIN idb
     ELSE Tk(p).obj.id \notin DOMAIN remote

\* C16: after a successful importThreads(ts) with fresh ids the engine holds
\* every thread it held before, unchanged, and every thread of ts (up to the
\* timestamps and identity stamps the Remote engine adds).
C16_ImportKeepsAndAdds ==
  [][\A p \in Procs :
       LET before == StoreAt(Tk(p).route)
           after == StoreAtNext(Tk(p).route)
           ts == Tk(p).list
       IN ImportCommits(p)
            => /\ \A i \in DOMAIN before : i \in DOMAIN after /\ after[i] = before[i]
               /\ \A n \in 1..Len(ts) :
                    /\ ts[n].id \in DOMAIN after
                    /\ Without(after[ts[n].id], MetaFields) = Without(ts[n], MetaFields)]_vars

\* ------------------------------------------- syncing Local to Remote
\* the two callers of the Remote engine's bulk import, syncToRemote and
\* importThreads, with sign-in and sign-out and with deleteThread calls that
\* change what the engines hold
SyncCall(p) ==
  \/ SyncToRemote_Start(p)
  \/ \E threads \in ImportInputs \cup ImportNewInputs : ImportThreads_Start(p, threads)
  \/ \E id \in Ids : DeleteThread_Start(p, id)

SyncStep(p) ==
  \/ SyncToRemote_IdbGetThreads(p)
  \/ ImportThreads_IdbGetThreads(p)
  \/ ImportThreads_IdbSaveThreads(p)
  \/ ImportThreads_SetDoc(p)
  \/ DeleteThread_IdbGetThreads(p)
  \/ DeleteThread_IdbSaveThreads(p)
  \/ DeleteThread_GetDoc(p)
  \/ DeleteThread_DeleteDoc(p)
  \/ Finish(p)

SyncNext ==
  \/ Environment
  \/ \E p \in Procs : SyncCall(p) \/ SyncStep(p)

SpecSync == Init /\ [][SyncNext]_vars

\* C17: a syncToRemote that returns n was called with a session, n is the
\* number of threads the Local engine holds, and the Remote engine then holds
\* each of them under its id with the local content (plus the import stamps
\* and timestamps); called without a session it ends in the authentication
\* error, having issued no request and written nothing.
C17_SyncCopiesAll ==
  \A p \in Procs :
    LET t == Tk(p)
    IN (t.op = "syncToRemote" /\ t.pc = "done")
         => /\ t.res.kind = "returned"
               => /\ t.hadSession
                  /\ t.res.val = VNum(Cardinality(DOMAIN idb))
                  /\ \A i \in DOMAIN idb :
                       /\ i \in DOMAIN remote
                       /\ Without(remote[i], MetaFields) = Without(idb[i], MetaFields)
                       /\ {"importedBy", "importedByUid"} \subseteq DOMAIN remote[i]
            /\ ~t.hadSession
               => /\ t.res = Threw(AuthError)
                  /\ t.net = 0 /\ t.writes = {} /\ t.reads = {}

\* two local threads were synced over a remote collection that held another
\* version of one of them
C17_Witness ==
  \E p \in Procs :
    /\ Tk(p).op = "syncToRemote" /\ Tk(p).pc = "done"
    /\ Tk(p).res = Returned(VNum(2))
    /\ DOMAIN remote = {"t1", "t2"}
    /\ Without(remote["t1"], MetaFields) = Without(T1b, MetaFields)
    /\ remote["t1"].importedBy = Email("u1")

BulkOps == {"importThreads", "syncToRemote"}

\* the k-th thread of a bulk import is in the remote collection as imported
Committed(t, n) ==
  /\ t.list[n].id \in DOMAIN remote
  /\ Without(remote[t.list[n].id], MetaFields) = Without(t.list[n], MetaFields)
  /\ {"importedBy", "importedByUid"} \subseteq DOMAIN remote[t.list[n].id]

\* C18: each step of the Remote engine's bulk import writes the one thread it
\* is at and no other document; when the write of the k-th thread fails the
\* call ends there with the error, the first k-1 threads stay committed and
\* nothing further is written.
C18_BulkImportNotAtomic ==
  [][\A p \in Procs :
       LET t == Tk(p)
           k == t.idx
       IN (t.op \in BulkOps /\ t.pc = "it_setDoc" /\ tasks'[p] # t)
            => /\ \A i \in (DOMAIN remote) \cup (DOMAIN remote') :
                    i # t.list[k].id => (i \in DOMAIN remote /\ i \in DOMAIN remote'
                                         /\ remote'[i] = remote[i])
               /\ Len(t.work) = k - 1
               /\ \A n \in 1..(k - 1) : Committed(t, n)
               /\ tasks'[p].io
                    => /\ remote' = remote
                       /\ tasks'[p].pc = "done"
                       /\ tasks'[p].res = Threw(IoError)]_vars

\* the write of the second of two threads failed: the first is committed,
\* the second is not there
C18_Witness ==
  \E p \in Procs :
    /\ Tk(p).op = "importThreads" /\ Tk(p).pc = "done" /\ Tk(p).io
    /\ Tk(p).res = Threw(IoError) /\ Tk(p).idx = 2
    /\ Tk(p).list = <<T1a, T2>>
    /\ "t1" \in DOMAIN remote /\ Without(remote["t1"], MetaFields) = T1a
    /\ remote["t1"].importedBy = Email("u1")
    /\ "t2" \notin DOMAIN remote

\* ---------------------------------------------------- the writing calls
\* the calls of the facade that write whole threads to an engine: saveThread,
\* saveThreads, updateThread, importThreads and syncToRemote, with sign-in
\* and sign-out in between
WriteCall(p) ==
  \/ \E thread \in ThreadInputs : SaveThread_Start(p, thread)
  \/ \E threads \in ListInputs : SaveThreads_Start(p, threads)
  \/ \E id \in Ids, updates \in UpdateInputs \cup IdUpdateInputs :
       UpdateThread_Start(p, id, updates)
  \/ \E threads \in ImportInputs \cup ImportNewInputs : ImportThreads_Start(p, threads)
  \/ SyncToRemote_Start(p)

WriteStep(p) ==
  \/ SaveThread_IdbGetThreads(p)
  \/ SaveThread_IdbSaveThreads(p)
  \/ SaveThread_SetDoc(p)
  \/ SaveThreads_IdbSaveThreads(p)
  \/ SaveThreads_SetDoc(p)
  \/ UpdateThread_IdbGetThreadById(p)
  \/ UpdateThread_IdbGetThreads(p)
  \/ UpdateThread_IdbSaveThreads(p)
  \/ UpdateThread_GetDoc(p)
  \/ UpdateThread_UpdateDoc(p)
  \/ ImportThreads_IdbGetThreads(p)
  \/ ImportThreads_IdbSaveThreads(p)
  \/ ImportThreads_SetDoc(p)
  \/ SyncToRemote_IdbGetThreads(p)
  \/ Finish(p)

WriteNext ==
  \/ Environment
  \/ \E p \in Procs : WriteCall(p) \/ WriteStep(p)

SpecWrites == Init /\ [][WriteNext]_vars

\* the step in which the Remote engine's saveThread writes its document, for
\* saveThread and for each element of saveThreads
RemoteSaveCommits(p) ==
  /\ Tk(p).op \in {"saveThread", "saveThreads"}
  /\ Tk(p).pc \in {"st_setDoc", "sts_setDoc"}
  /\ tasks'[p] # Tk(p) /\ ~tasks'[p].io

\* the thread that step was handed
SavedArg(t) == IF t.op = "saveThread" THEN t.arg ELSE t.list[t.idx]

\* C19 as the specification states it: a Remote saveThread for an id that
\* exists keeps the fields of the stored thread that the new one does not
\* mention.
C19_PartialUpdate ==
  [][\A p \in Procs :
       LET thread == SavedArg(Tk(p))
       IN (RemoteSaveCommits(p) /\ thread.id \in DOMAIN remote)
            => \A k \in (DOMAIN remote[thread.id]) \ (DOMAIN thread \cup TimestampFields) :
                 /\ k \in DOMAIN remote'[thread.id]
                 /\ remote'[thread.id][k] = remote[thread.id][k]]_vars

\* C19: a Remote saveThread replaces the document of that id: afterwards it
\* holds the fields of the thread saved, the last-modified stamps of the
\* session user and the two timestamps (createdAt the thread's own, or the
\* time of the write), and nothing of what was stored before; every other
\* document stays as it was.
C19_FullReplace ==
  [][\A p \in Procs :
       LET thread == SavedArg(Tk(p))
           doc == remote'[thread.id]
       IN RemoteSaveCommits(p)
            => /\ thread.id \in DOMAIN remote'
               /\ DOMAIN doc = (DOMAIN thread) \cup StampFields \cup TimestampFields
               /\ \A k \in (DOMAIN thread) \ TimestampFields : doc[k] = thread[k]
               /\ \E u \in Users : /\ doc.lastModifiedBy = Email(u)
                                   /\ doc.lastModifiedByUid = Uid(u)
               /\ doc.updatedAt = clock
               /\ doc.createdAt = IF Has(thread, "createdAt") THEN thread.createdAt
                                  ELSE clock
               /\ \A i \in DOMAIN remote :
                    i # thread.id => (i \in DOMAIN remote' /\ remote'[i] = remote[i])]_vars

\* the only call so far saved t1 over the stored t1, whose creation time is
\* gone
C19_Witness ==
  \E p \in Procs :
    /\ calls = 1
    /\ Tk(p).op = "saveThread" /\ Tk(p).pc = "done" /\ Tk(p).route = "remote"
    /\ Tk(p).res.kind = "returned" /\ Tk(p).arg = T1a
    /\ remote["t1"].createdAt # Earlier

\* the awaits of the Remote engine's document writes
WritePcs == {"st_setDoc", "sts_setDoc", "ut_updateDoc", "it_setDoc"}

\* the step in which a call hands a document write to the Remote engine
IssuesWrite(p) ==
  tasks'[p].pc \in WritePcs /\ tasks'[p].net = Tk(p).net + 1

\* the step in which that write is committed, and the document it writes
CommitsWrite(p) == Tk(p).pc \in WritePcs /\ remote' # remote
WrittenId(t) == IF t.pc = "ut_updateDoc" THEN t.id ELSE t.obj.id

\* the identity fields a write carries: the bulk import's, or the others'
IdentityOf(t) ==
  IF t.pc = "it_setDoc" THEN <<t.obj.importedBy, t.obj.importedByUid>>
  ELSE <<t.obj.lastModifiedBy, t.obj.lastModifiedByUid>>

\* C20 as the specification states it: whatever write stored it last -
\* create, update or bulk import - a remote thread carries the last-modified
\* stamp of a signed-in user.
C20_LastModifiedStamp ==
  [][\A p \in Procs :
       CommitsWrite(p)
         => /\ Has(remote'[WrittenId(Tk(p))], "lastModifiedBy")
            /\ \E u \in Users :
                 /\ remote'[WrittenId(Tk(p))].lastModifiedBy = Email(u)
                 /\ remote'[WrittenId(Tk(p))].lastModifiedByUid = Uid(u)]_vars

\* C20: a document write is handed to the Remote engine only while a session
\* exists and carries that user's identity and the server's timestamp:
\* saveThread, saveThreads and updateThread set lastModifiedBy and
\* lastModifiedByUid, the bulk import sets importedBy and importedByUid and
\* leaves lastModifiedBy as the imported thread had it.  The committed
\* document carries what the write carried and the time of the commit, and
\* no other document changes.
C20_WritesStamped ==
  [][\A p \in Procs :
       /\ IssuesWrite(p)
            => /\ currentUser # NoUser
               /\ IdentityOf(tasks'[p]) = <<Email(currentUser), Uid(currentUser)>>
               /\ tasks'[p].obj.updatedAt = ServerTimestamp
               /\ tasks'[p].pc = "it_setDoc"
                    => (Has(tasks'[p].obj, "lastModifiedBy")
                          <=> Has(tasks'[p].list[tasks'[p].idx], "lastModifiedBy"))
       /\ CommitsWrite(p)
            => LET t == Tk(p)
                   doc == remote'[WrittenId(t)]
               IN /\ IF t.pc = "it_setDoc"
                     THEN <<doc.importedBy, doc.importedByUid>> = IdentityOf(t)
                     ELSE <<doc.lastModifiedBy, doc.lastModifiedByUid>> = IdentityOf(t)
                  /\ doc.updatedAt = clock
                  /\ \A i \in DOMAIN remote :
                       i # WrittenId(t) => (i \in DOMAIN remote' /\ remote'[i] = remote[i])]_vars

\* a thread stored by the bulk import: the importer's identity is on it, a
\* last-modified stamp is not
C20_Witness ==
  \E p \in Procs :
    /\ Tk(p).op = "importThreads" /\ Tk(p).pc = "done" /\ Tk(p).route = "remote"
    /\ Tk(p).res.kind = "returned"
    /\ "t2" \in DOMAIN remote
    /\ Has(remote["t2"], "importedBy") /\ remote["t2"].importedBy = Email("u1")
    /\ ~Has(remote["t2"], "lastModifiedBy")

\* the identity an annotation is to carry: the session user's, or the
\* anonymous marker
AuthorOf(user) ==
  IF user = NoUser THEN [createdBy |-> "Anonymous", createdByUid |-> "anonymous"]
  ELSE [createdBy |-> Email(user), createdByUid |-> Uid(user)]

\* C21: the annotation that a facade updateAnnotation adds carries createdBy
\* and createdByUid, the session user's identity or the anonymous marker, and
\* a timestamp that is the time of the call and not the caller's.
C21_CallerIdentityStamped ==
  [][\A p \in Procs :
       LET after == AsArray(StoreAtNext(Tk(p).route)[Tk(p).id])
           added == after[Len(after)]
       IN (AppendCommits(p) /\ Tk(p).op = "updateAnnotation")
            => /\ Len(after) > 0
               /\ Has(added, "timestamp") /\ added.timestamp <= clock
               /\ Has(added, "createdBy") /\ Has(added, "createdByUid")
               /\ \E u \in Users \cup {NoUser} :
                    /\ added.createdBy = AuthorOf(u).createdBy
                    /\ added.createdByUid = AuthorOf(u).createdByUid]_vars

LocalSavePcs ==
  {"st_idbSaveThreads", "sts_idbSaveThreads", "ut_idbSaveThreads", "it_idbSaveThreads"}

\* the list a call hands to IndexedDBStorage.saveThreads
SavedList(t) == IF t.pc = "sts_idbSaveThreads" THEN t.list ELSE t.work

\* C22: a step in which IndexedDBStorage.saveThreads runs leaves the database
\* holding either exactly the records of its list that have an id or exactly
\* what it held before; when two records of the list share an id, or the
\* database cannot be opened, it is what it held before.
C22_SaveThreadsAllOrNothing ==
  [][\A p \in Procs :
       LET t == Tk(p)
       IN (t.pc \in LocalSavePcs /\ tasks'[p] # t)
            => /\ idb' = idb \/ idb' = StoreOf(Cleaned(SavedList(t)))
               /\ (DupKeys(Cleaned(SavedList(t))) \/ ~InitOk) => idb' = idb]_vars

\* an importThreads put a thread whose id is stored after the stored ones:
\* the save was rejected and the database holds what it held
C22_Witness ==
  \E p \in Procs :
    /\ Tk(p).op = "importThreads" /\ Tk(p).pc = "done"
    /\ Tk(p).route = "local" /\ Tk(p).res = Threw(IoError)
    /\ Len(Tk(p).work) = 4 /\ DupKeys(Cleaned(Tk(p).work))
    /\ idb \in IdbSeeds

\* the step in which a StorageManager.deleteThread returns, no request of
\* the call having failed
ManagerDeleteReturns(p) ==
  /\ Tk(p).op = "sm_deleteThread"
  /\ Tk(p).pc # "done" /\ tasks'[p].pc = "done"
  /\ tasks'[p].res.kind = "returned" /\ ~tasks'[p].io

\* C23: a StorageManager.deleteThread none of whose requests fails returns
\* true when the engine it works on, the database or the flat store, held a
\* thread of that id, which is then gone, and false when it held none.
C23_DeleteReportsExistence ==
  [][\A p \in Procs :
       LET engine == tasks'[p].route
       IN ManagerDeleteReturns(p)
            => /\ tasks'[p].res = Returned(VBool(Tk(p).id \in DOMAIN StoreAt(engine)))
               /\ Tk(p).id \notin DOMAIN StoreAtNext(engine)]_vars

\* the records of a list, or of a store, as a set
RecordsOf(list) == {list[n] : n \in 1..Len(list)}
StoredRecords(store) == {store[i] : i \in DOMAIN store}

\* the step in which a StorageManager.saveThreads call returns true
ManagerSaveSucceeds(p) ==
  /\ Tk(p).op = "sm_saveThreads" /\ Tk(p).pc = "sm_saveThreads"
  /\ tasks'[p].pc = "done" /\ tasks'[p].res = Returned(VBool(TRUE))

\* C24: a StorageManager.saveThreads that returns true has persisted the
\* same records on either back-end, the records of its list that have an id:
\* the database holds exactly those, and so does the flat store, which holds
\* no record without an id.
C24_BackendsPersistAlike ==
  [][\A p \in Procs :
       ManagerSaveSucceeds(p)
         => IF tasks'[p].route = "local"
            THEN StoredRecords(idb') = RecordsOf(Cleaned(Tk(p).work))
            ELSE /\ RecordsOf(flat') = RecordsOf(Cleaned(Tk(p).work))
                 /\ \A n \in 1..Len(flat') : Has(flat'[n], "id")]_vars

\* ------------------------------------------- StorageManager at module load
\* The module has been loaded: its init() found no cached choice and awaits
\* the probe, while the panel's calls on StorageManager begin.
LoadProcs == {"load", "p1"}

LoadInit ==
  /\ idbAvailable \in BOOLEAN
  /\ idb \in (IF idbAvailable THEN IdbSeeds ELSE {EmptyObj})
  /\ idbHandle = "null"
  /\ remote \in RemoteSeeds
  /\ currentUser = NoUser
  /\ authQueue = <<>>
  /\ currentStorage = "local"
  /\ clock = 1
  /\ tasks = [p \in LoadProcs |->
                IF p = "load"
                THEN [IdleTask EXCEPT !.op = "sm_init", !.pc = "sm_probe",
                                      !.route = "manager", !.route0 = "manager"]
                ELSE IdleTask]
  /\ calls = 0
  /\ usingIndexedDB = "null"
  /\ flat = FlatSeed
  /\ settings = SettingsSeed(idbAvailable)

LoadNext ==
  \/ Tick
  \/ Manager_Init_Probe("load")
  \/ \E p \in Procs : ManagerCall(p) \/ ManagerStep(p)

SpecLoad == LoadInit /\ [][LoadNext]_vars

\* C25: once StorageManager._usingIndexedDB holds a choice, no step changes
\* it: neither a later call nor an init() that was started before the choice
\* was stored.
C25_SelectionIsFinal ==
  [][usingIndexedDB # "null" => usingIndexedDB' = usingIndexedDB]_vars

\* ------------------------------------------------- the storage debug panel
\* StorageDebug's operations, with StorageManager calls that change what
\* they find in the store
DebugCall(p) ==
  \/ RunDiagnostics_Start(p)
  \/ PerformMaintenance_Start(p)
  \/ RepairStorage_Start(p)
  \/ \E threads \in ManagerSaveInputs : Manager_SaveThreads_Start(p, threads)
  \/ \E threads \in ManagerListInputs : Manager_ImportData_Start(p, threads, FALSE)
  \/ \E id \in Ids : Manager_DeleteThread_Start(p, id)
  \/ \E s \in SettingsInputs : Manager_SaveSettings_Start(p, s)

DebugStep(p) ==
  \/ RunDiagnostics_StorageType(p)
  \/ RunDiagnostics_Availability(p)
  \/ RunDiagnostics_WriteRead(p)
  \/ RunDiagnostics_Threads(p)
  \/ RunDiagnostics_Space(p)
  \/ RunDiagnostics_SaveThread(p)
  \/ RunDiagnostics_GetThreadById(p)
  \/ RunDiagnostics_DeleteThread(p)
  \/ RunDiagnostics_Alternative(p)
  \/ PerformMaintenance_StorageType(p)
  \/ PerformMaintenance_TestStorage(p)
  \/ PerformMaintenance_GetThreads(p)
  \/ RepairStorage_StorageType(p)
  \/ RepairStorage_GetThreads(p)
  \/ RepairStorage_ClearAllData(p)
  \/ RepairStorage_Init(p)
  \/ RepairStorage_SaveThreads(p)
  \/ RepairStorage_LocalStorage(p)
  \/ RepairStorage_Verify(p)
  \/ Manager_ImportData_GetThreads(p)
  \/ Manager_DeleteThread(p)
  \/ Manager_SaveSettings(p)
  \/ Manager_SaveThreads(p)
  \/ Finish(p)

DebugNext ==
  \/ Tick
  \/ \E p \in Procs : DebugCall(p) \/ DebugStep(p)

SpecDebug == Init /\ [][DebugNext]_vars

\* C26: the results of a runDiagnostics have success true exactly when every
\* entry of tests passed, the entry of the alternative back-end included;
\* when success is false the summary names the entries that did not pass and
\* no others.
C26_SuccessIsConjunction ==
  \A p \in Procs :
    (Tk(p).op = "runDiagnostics" /\ Tk(p).pc = "done")
      => LET r == Tk(p).res.val.o
         IN /\ r.success = (\A n \in 1..Len(r.tests) : r.tests[n].passed)
            /\ ~r.success
                 => /\ r.summary.kind = "failed"
                    /\ {r.summary.names[n] : n \in 1..Len(r.summary.names)}
                         = {r.tests[n].name : n \in {m \in 1..Len(r.tests) :
                                                       ~r.tests[m].passed}}

\* C27: a performMaintenance that read only valid records, so that its filter
\* removed none, does not write the threads: the call's save leaves the
\* engine's threads untouched and unwritten.
C27_MaintenanceWritesOnlyIfFiltered ==
  [][\A p \in Procs :
       LET t == Tk(p)
       IN (/\ t.op = "performMaintenance" /\ t.pc = "sm_saveThreads"
           /\ tasks'[p].pc = "done"
           /\ Len(t.work) = Len(t.list))
            => /\ tasks'[p].writes = {}
               /\ idb' = idb /\ flat' = flat]_vars

\* the threads of the engine a StorageManager call works on, in the order
\* the engine returns them
ThreadsAt(engine) == IF engine = "local" THEN IdbGetAll(idb) ELSE flat

\* C28: when a repairStorage has returned, the engine it worked on holds
\* exactly the threads it held when the repair began that are objects with an
\* id, whatever happened to the repair's first read.
C28_RepairKeepsValidThreads ==
  \A p \in Procs :
    (Tk(p).op = "repairStorage" /\ Tk(p).pc = "done")
      => ThreadsAt(Tk(p).route) = Cleaned(Tk(p).arg.threads)

\* the ids of the records of a list
IdsOf(list) == {list[n].id : n \in {m \in 1..Len(list) : Has(list[m], "id")}}

\* the records of a list that carry the id
ThreadsOfId(list, id) == SelectSeq(list, LAMBDA t : Has(t, "id") /\ t.id = id)

\* the collection holds one thread for each id of existing and imported, the
\* imported one where the import has the id, and nothing else
IsUpsert(now, existing, imported) ==
  /\ \A n \in 1..Len(now) : Has(now[n], "id")
  /\ IdsOf(now) = IdsOf(existing) \cup IdsOf(imported)
  /\ \A id \in IdsOf(now) :
       /\ Len(ThreadsOfId(now, id)) = 1
       /\ IF id \in IdsOf(imported)
          THEN \E n \in 1..Len(imported) : ThreadsOfId(now, id)[1] = imported[n]
          ELSE \E n \in 1..Len(existing) : ThreadsOfId(now, id)[1] = existing[n]

\* C29: when an importData has returned, the engine it worked on holds, in
\* merge mode, the upsert by id of the imported threads into the threads it
\* held before the call, and in replace mode exactly the imported threads.
C29_ImportMergesOrReplaces ==
  \A p \in Procs :
    (Tk(p).op = "sm_importData" /\ Tk(p).pc = "done")
      => LET existing == Tk(p).arg[Tk(p).route]
             now == ThreadsAt(Tk(p).route)
         IN IF Tk(p).arg.replace
            THEN RecordsOf(now) = RecordsOf(Tk(p).list)
            ELSE IsUpsert(now, existing, Tk(p).list)

\* the StorageManager and StorageDebug operations on the threads
ThreadOps ==
  {"sm_saveThreads", "sm_deleteThread", "sm_importData", "performMaintenance",
   "repairStorage"}

\* C30: no step of saveThreads, deleteThread, importData in merge mode,
\* performMaintenance or repairStorage changes the stored settings, and no
\* step of saveSettings changes a stored thread.
C30_CollectionsIndependent ==
  [][\A p \in Procs :
       /\ Tk(p).op \in ThreadOps => settings' = settings
       /\ Tk(p).op = "sm_saveSettings" => (idb' = idb /\ flat' = flat)]_vars

\* ---- the annotation calls alone, of the facade and of StorageManager
AnnotationCall(p) ==
  \/ \E id \in AnnIds, data \in AnnInputs : UpdateAnnotation_Start(p, id, data)
  \/ \E id \in AnnIds, index \in IndexInputs : DeleteAnnotation_Start(p, id, index)
  \/ \E id \in AnnIds, data \in AnnInputs : Manager_UpdateAnnotation_Start(p, id, data)
  \/ \E id \in AnnIds, index \in IndexInputs : Manager_DeleteAnnotation_Start(p, id, index)

AnnotationStep(p) ==
  \/ GetThread_IdbGetThreadById(p)
  \/ GetThread_GetDoc(p)
  \/ UpdateThread_IdbGetThreadById(p)
  \/ UpdateThread_IdbGetThreads(p)
  \/ UpdateThread_IdbSaveThreads(p)
  \/ UpdateThread_GetDoc(p)
  \/ UpdateThread_UpdateDoc(p)
  \/ Manager_GetThreadById(p)
  \/ Manager_SaveThread(p)
  \/ Finish(p)

AnnotationNext ==
  \/ Environment
  \/ \E p \in Procs : AnnotationCall(p) \/ AnnotationStep(p)

SpecAnnotations == Init /\ [][AnnotationNext]_vars

\* the stored annotations are one legacy object, not an array
IsLegacy(thread) == Has(thread, "annotations") /\ ~thread.annotations.arr

\* the step in which an annotation mutation of the facade or of
\* StorageManager stores its thread and returns true
AnnotationCommits(p) ==
  /\ Tk(p).op \in AnnotationOps \cup ManagerOps
  /\ Tk(p).pc \in {"ut_idbSaveThreads", "ut_updateDoc", "sm_saveThread"}
  /\ tasks'[p].pc = "done" /\ tasks'[p].res = Returned(VBool(TRUE))
  /\ Tk(p).id \in DOMAIN StoreAt(Tk(p).route)

\* C31: an annotation mutation on a thread whose stored annotations are one
\* legacy object X stores an array: X followed by the new annotation after an
\* append, and the empty array with isAnnotated false after a delete at
\* index 0.
C31_LegacyNormalized ==
  [][\A p \in Procs :
       LET t == Tk(p)
           before == StoreAt(t.route)[t.id]
           after == StoreAtNext(t.route)[t.id]
       IN (AnnotationCommits(p) /\ IsLegacy(before))
            => /\ t.id \in DOMAIN StoreAtNext(t.route)
               /\ Has(after, "annotations") /\ after.annotations.arr
               /\ t.op \in {"updateAnnotation", "sm_updateAnnotation"}
                    => /\ Len(after.annotations.items) = 2
                       /\ after.annotations.items[1] = before.annotations.items[1]
                       /\ Without(after.annotations.items[2], {"timestamp"})
                            = Without(t.arg, {"timestamp"})
               /\ (t.op \in {"deleteAnnotation", "sm_deleteAnnotation"} /\ t.idx = 0)
                    => /\ after.annotations.items = <<>>
                       /\ after.isAnnotated = FALSE]_vars

\* a thread without the two fields an annotation mutation is to change
Unannotated(thread) == Without(thread, {"annotations", "isAnnotated"})

\* C32: no step of an updateAnnotation or deleteAnnotation on the Local
\* Engine, the facade's or StorageManager's, adds or removes a stored thread
\* or changes a thread other than the call's; of the call's thread it changes
\* annotations and isAnnotated only.
C32_OnlyAnnotationsChange ==
  [][\A p \in Procs :
       LET t == Tk(p)
       IN (t.op \in AnnotationOps \cup ManagerOps /\ t.route = "local")
            => /\ DOMAIN idb' = DOMAIN idb
               /\ \A i \in DOMAIN idb :
                    IF i = t.id THEN Unannotated(idb'[i]) = Unannotated(idb[i])
                    ELSE idb'[i] = idb[i]]_vars

\* ---- two callers of the facade on the Local engine, neither awaiting the
\* other.  The database holds nothing or one thread; an open that fails is
\* not remembered by init(), so a later open can succeed.
RaceProcs == {"p1", "p2"}

RaceSeeds == {EmptyObj, [i \in {"t1"} |-> T1b]}

RaceInit ==
  /\ idbAvailable \in BOOLEAN
  /\ idb \in RaceSeeds
  /\ idbHandle = "null"
  /\ remote \in RemoteSeeds
  /\ currentUser = NoUser
  /\ authQueue = <<>>
  /\ currentStorage = "local"
  /\ clock = 1
  /\ tasks = [p \in RaceProcs |-> IdleTask]
  /\ calls = 0
  /\ usingIndexedDB = "null"
  /\ flat = FlatSeed
  /\ settings = SettingsSeed(idbAvailable)

\* indexedDB.open succeeds where an earlier request failed
OpenRecovers ==
  /\ ~idbAvailable
  /\ idbAvailable' = TRUE
  /\ UNCHANGED <<idb, settings, idbHandle, remote, currentUser, authQueue,
                 currentStorage, clock, tasks, calls, usingIndexedDB, flat>>

RaceCall(p) ==
  \/ \E thread \in ThreadInputs : SaveThread_Start(p, thread)
  \/ \E id \in AnnIds, updates \in UpdateInputs : UpdateThread_Start(p, id, updates)
  \/ \E id \in AnnIds : DeleteThread_Start(p, id)

RaceStep(p) ==
  \/ SaveThread_IdbGetThreads(p)
  \/ SaveThread_IdbSaveThreads(p)
  \/ UpdateThread_IdbGetThreadById(p)
  \/ UpdateThread_IdbGetThreads(p)
  \/ UpdateThread_IdbSaveThreads(p)
  \/ DeleteThread_IdbGetThreads(p)
  \/ DeleteThread_IdbSaveThreads(p)
  \/ Finish(p)

RaceNext ==
  \/ OpenRecovers
  \/ \E p \in RaceProcs : RaceCall(p) \/ RaceStep(p)

SpecRace == RaceInit /\ [][RaceNext]_vars

\* the step in which a Local mutation's whole-collection write succeeds
CollectionWritten(p) ==
  /\ Tk(p).pc \in {"st_idbSaveThreads", "ut_idbSaveThreads", "dt_idbSaveThreads"}
  /\ tasks'[p].pc = "done" /\ "local" \in tasks'[p].writes

\* C33: the write of a Local mutation stores the list the call built from its
\* own read and nothing else: a thread that another call stored after that
\* read is overwritten.
C33_LaterWriteWinsWholesale ==
  [][\A p \in RaceProcs :
       CollectionWritten(p)
         => /\ \A n \in 1..Len(Tk(p).work) :
                 /\ Tk(p).work[n].id \in DOMAIN idb'
                 /\ idb'[Tk(p).work[n].id] = Tk(p).work[n]
            /\ \A i \in DOMAIN idb' : \E n \in 1..Len(Tk(p).work) : Tk(p).work[n].id = i]_vars

\* saveThread of t1 and of t2 have both returned their thread, with the
\* database open at every request (it holds the settings of an earlier run),
\* and one of the two threads is not stored
C33_Witness ==
  /\ settings.local # EmptyObj
  /\ \A p \in RaceProcs :
       /\ Tk(p).op = "saveThread" /\ Tk(p).pc = "done"
       /\ Tk(p).res.kind = "returned" /\ Tk(p).writes = {"local"}
  /\ tasks["p1"].id # tasks["p2"].id
  /\ \E p \in RaceProcs : Tk(p).id \notin DOMAIN idb

\* ---- the application component: its state `threads`, the annotation
\* handler and the runs of the save-on-change effect.  The component's
\* state is the list of the record "app"; "handler" is the updateThread that
\* handleAnnotationSave calls, and each effect process is one run of saveData.
EffectProcs == {"effect1", "effect2"}
AppProcs == {"app", "handler"} \cup EffectProcs

AppThreads == <<T1a, T2>>

AppInit ==
  /\ idbAvailable = TRUE
  /\ idb = StoreOf(AppThreads)
  /\ idbHandle = "null"
  /\ remote \in RemoteSeeds
  /\ currentUser = NoUser
  /\ authQueue = <<>>
  /\ currentStorage = "local"
  /\ clock = 1
  /\ tasks = [p \in AppProcs |->
                IF p = "app" THEN [IdleTask EXCEPT !.op = "App", !.pc = "mounted",
                                                   !.list = AppThreads]
                ELSE IdleTask]
  /\ calls = 0
  /\ usingIndexedDB = "null"
  /\ flat = FlatSeed
  /\ settings = SettingsSeed(idbAvailable)

\* handleAnnotationSave's updatedThread
AnnotatedThread(thread, annotationData, now) ==
  Spread(thread,
         [isAnnotated |-> TRUE,
          annotations |->
            Arr(Append(AsArray(thread),
                       Spread(Spread([id |-> "uuid", timestamp |-> now],
                                     AuthorOf(currentUser)),
                              annotationData)))])

\* threads.map(...) of handleAnnotationSave
RECURSIVE MapAnnotated(_, _, _, _)
MapAnnotated(threads, threadId, annotationData, now) ==
  IF threads = <<>> THEN <<>>
  ELSE <<IF Head(threads).id = threadId
         THEN AnnotatedThread(Head(threads), annotationData, now)
         ELSE Head(threads)>>
       \o MapAnnotated(Tail(threads), threadId, annotationData, now)

\* handleAnnotationSave: storageService.updateThread(threadId, updatedThread)
\* is called and not awaited, then setThreads(updatedThreads); the change of
\* state schedules a run of the save effect
HandleAnnotationSave(threadId, annotationData, e) ==
  /\ tasks["handler"].pc = "idle"
  /\ tasks[e].pc = "idle"
  /\ calls < MaxCalls
  /\ calls' = calls + 1
  /\ \E n \in 1..Len(tasks["app"].list) :
       /\ tasks["app"].list[n].id = threadId
       /\ Len(AsArray(tasks["app"].list[n])) < MaxAnns
       /\ LET updatedThread == AnnotatedThread(tasks["app"].list[n], annotationData, clock)
              updatedThreads == MapAnnotated(tasks["app"].list, threadId,
                                             annotationData, clock)
          IN tasks' = [tasks EXCEPT
               !["handler"] = EnterUpdateThread(
                                Begin("updateThread", threadId, updatedThread, <<>>, 0),
                                threadId, updatedThread),
               !["app"].list = updatedThreads,
               ![e] = [IdleTask EXCEPT !.op = "saveData", !.pc = "ef_scheduled",
                                       !.list = updatedThreads]]
  /\ UNCHANGED <<idb, idbHandle, remote, env>>

\* one iteration of saveData's loop: await storageService.saveThread(thread)
SaveDataEnter(threads, k) ==
  LET t == Begin("saveThread", threads[k].id, threads[k], threads, k)
  IN IF currentStorage = "local" THEN [t EXCEPT !.pc = "st_idbGetThreads"]
     ELSE RemoteSaveEnter(t, threads[k], "st_setDoc", FALSE)

\* the effect runs after the render: saveData() is called and not awaited
SaveEffect_Run(e) ==
  /\ tasks[e].pc = "ef_scheduled"
  /\ SetTask(e, IF tasks[e].list = <<>> THEN IdleTask
                ELSE SaveDataEnter(tasks[e].list, 1))
  /\ UNCHANGED <<idb, idbHandle, remote, env>>
  /\ UNCHANGED calls

\* the loop goes on with the next thread, or ends at the end of the list or
\* in its catch
SaveEffect_Next(e) ==
  /\ tasks[e].pc = "done" /\ tasks[e].op = "saveThread"
  /\ SetTask(e, IF tasks[e].res.kind = "threw" \/ tasks[e].idx >= Len(tasks[e].list)
                THEN IdleTask
                ELSE SaveDataEnter(tasks[e].list, tasks[e].idx + 1))
  /\ UNCHANGED <<idb, idbHandle, remote, env>>
  /\ UNCHANGED calls

AppStep(p) ==
  \/ UpdateThread_IdbGetThreadById(p)
  \/ UpdateThread_IdbGetThreads(p)
  \/ UpdateThread_IdbSaveThreads(p)
  \/ SaveThread_IdbGetThreads(p)
  \/ SaveThread_IdbSaveThreads(p)

AppNext ==
  \/ Tick
  \/ \E id \in AnnIds, data \in AnnInputs, e \in EffectProcs :
       HandleAnnotationSave(id, data, e)
  \/ \E e \in EffectProcs : SaveEffect_Run(e) \/ SaveEffect_Next(e)
  \/ Finish("handler")
  \/ \E p \in AppProcs : AppStep(p)

SpecApp == AppInit /\ [][AppNext]_vars

\* a mutation of the facade has been called and has not returned
MutationInFlight(p) ==
  /\ Tk(p).op \in {"saveThread", "updateThread"}
  /\ Tk(p).pc \notin {"idle", "done"}

\* C35: the application never has two mutations of the facade in flight at
\* the same time: the handler's updateThread has returned before a run of
\* the save effect calls saveThread, and two runs of the effect do not overlap.
C35_MutationsAwaited ==
  \A p, q \in AppProcs :
    (MutationInFlight(p) /\ MutationInFlight(q)) => p = q

\* the reference: a map keyed by id, and what a call that reported success
\* does to it
RefPut(map, id, thread) == [i \in DOMAIN map \cup {id} |-> IF i = id THEN thread ELSE map[i]]

RefApplied(t, res, map, after) ==
  CASE t.op = "saveThread" -> after = RefPut(map, t.arg.id, t.arg)
    [] t.op = "updateThread" ->
         t.id \in DOMAIN map /\ after = RefPut(map, t.id, Spread(map[t.id], t.arg))
    [] t.op = "deleteThread" ->
         IF res = Returned(VBool(TRUE))
         THEN t.id \in DOMAIN map /\ after = [i \in DOMAIN map \ {t.id} |-> map[i]]
         ELSE t.id \notin DOMAIN map /\ after = map
    [] t.op = "updateAnnotation" ->
         /\ t.id \in DOMAIN map
         /\ \E now \in 1..clock :
              after = RefPut(map, t.id, AppendedThread(map[t.id], t.arg, now))
    [] t.op = "deleteAnnotation" ->
         /\ t.id \in DOMAIN map
         /\ after = RefPut(map, t.id, PrunedThread(map[t.id], t.idx))
    [] OTHER -> TRUE

\* the mutations of the facade, one in flight at a time, that ran on the
\* Local engine from their first request to their last
SerialLocalMutation(t) ==
  /\ t.op \in {"saveThread", "updateThread", "deleteThread", "updateAnnotation",
               "deleteAnnotation"}
  /\ t.route0 = "local" /\ t.route = "local"

\* C34: with one facade mutation in flight at a time on the Local engine,
\* the step in which a call reports success takes the stored collection to
\* what the same call makes of a map keyed by id, and no other step of the
\* call changes the collection.
C34_SerialCallsRefineMap ==
  [][\A p \in Procs :
       SerialLocalMutation(Tk(p))
         => IF tasks'[p].pc = "done" /\ Tk(p).pc # "done"
               /\ tasks'[p].res.kind = "returned"
            THEN RefApplied(Tk(p), tasks'[p].res, idb, idb')
            ELSE idb' = idb]_vars

\* ---- one caller of the facade on the Local engine, each call awaited
\* before the next, over a database whose open can fail and later succeed
SerialInit ==
  /\ idbAvailable \in BOOLEAN
  /\ idb \in RaceSeeds \cup IdbSeeds
  /\ idbHandle = "null"
  /\ remote \in RemoteSeeds
  /\ currentUser = NoUser
  /\ authQueue = <<>>
  /\ currentStorage = "local"
  /\ clock = 1
  /\ tasks = [p \in Procs |-> IdleTask]
  /\ calls = 0
  /\ usingIndexedDB = "null"
  /\ flat = FlatSeed
  /\ settings = SettingsSeed(idbAvailable)

SerialNext ==
  \/ OpenRecovers
  \/ \E p \in Procs : RaceCall(p) \/ RaceStep(p)

SpecSerial == SerialInit /\ [][SerialNext]_vars

\* C37: the step in which a Local saveThread(t) returns its thread leaves
\* every stored thread other than t.id stored and unchanged, also when the
\* call's read of the collection failed.
C37_SaveKeepsOtherThreads ==
  [][\A p \in Procs :
       (/\ Tk(p).op = "saveThread" /\ Tk(p).route = "local"
        /\ Tk(p).pc # "done" /\ tasks'[p].pc = "done"
        /\ tasks'[p].res.kind = "returned")
         => \A i \in DOMAIN idb \ {Tk(p).arg.id} :
              i \in DOMAIN idb' /\ idb'[i] = idb[i]]_vars

\* ---- two callers append to one thread of the Remote engine, neither
\* awaiting the other
SessionAnnInputs == AnnInputs \cup {[rating |-> "bad"]}

SessionInit ==
  /\ idbAvailable = TRUE
  /\ idb \in IdbSeeds
  /\ idbHandle = "null"
  /\ remote \in RemoteSeeds
  /\ currentUser = "u1"
  /\ authQueue = <<>>
  /\ currentStorage = "remote"
  /\ clock = 1
  /\ tasks = [p \in RaceProcs |-> IdleTask]
  /\ calls = 0
  /\ usingIndexedDB = "null"
  /\ flat = FlatSeed
  /\ settings = SettingsSeed(idbAvailable)

SessionNext ==
  \/ Tick
  \/ \E p \in RaceProcs :
       \/ \E id \in AnnIds, data \in SessionAnnInputs : UpdateAnnotation_Start(p, id, data)
       \/ GetThread_GetDoc(p)
       \/ UpdateThread_GetDoc(p)
       \/ UpdateThread_UpdateDoc(p)
       \/ Finish(p)

SpecSessions == SessionInit /\ [][SessionNext]_vars

\* C36: the write of a Remote updateAnnotation fails only when its request
\* fails or the document is gone, never because the thread changed since the
\* call read it; when it succeeds the stored annotations are the list the call
\* sent, so an annotation another call stored since the read is absent.
C36_LastWriteWins ==
  [][\A p \in RaceProcs :
       (Tk(p).op = "updateAnnotation" /\ Tk(p).pc = "ut_updateDoc"
        /\ tasks'[p].pc = "done")
         => IF tasks'[p].res = Returned(VBool(TRUE))
            THEN /\ Tk(p).id \in DOMAIN remote'
                 /\ remote'[Tk(p).id].annotations = Tk(p).obj.annotations
            ELSE tasks'[p].io \/ Tk(p).id \notin DOMAIN remote]_vars

\* both appends to the thread, which had no annotation, have returned true
\* and the thread holds one annotation
C36_Witness ==
  /\ \A p \in RaceProcs :
       /\ Tk(p).op = "updateAnnotation" /\ Tk(p).pc = "done"
       /\ Tk(p).res = Returned(VBool(TRUE)) /\ Tk(p).writes = {"remote"}
  /\ tasks["p1"].arg # tasks["p2"].arg
  /\ "t1" \in DOMAIN remote
  /\ Len(AsArray(remote["t1"])) = 1

\* C38: a Local updateThread stores no thread: when its write succeeds, a
\* target that is not in the store before the write (a deleteThread having
\* removed it since the lookup by id) is not in the store after it.
C38_UpdateNeverCreates ==
  [][\A p \in RaceProcs :
       (Tk(p).op = "updateThread" /\ Tk(p).pc = "ut_idbSaveThreads"
        /\ tasks'[p].pc = "done" /\ tasks'[p].res = Returned(VBool(TRUE))
        /\ Tk(p).id \notin DOMAIN idb)
         => Tk(p).id \notin DOMAIN idb']_vars

\* C39: a step of syncToRemote, whether the call goes on to succeed or to
\* fail, leaves the Local collection and the facade's engine pointer as they
\* were, removes no remote thread, and changes no remote thread other than
\* the one of the Local list it is writing.
C39_SyncOnlyAddsRemote ==
  [][\A p \in Procs :
       ((Tk(p).op = "syncToRemote" \/ tasks'[p].op = "syncToRemote")
        /\ tasks'[p] # Tk(p))
         => /\ idb' = idb
            /\ currentStorage' = currentStorage
            /\ DOMAIN remote \subseteq DOMAIN remote'
            /\ \A i \in DOMAIN remote' :
                 \/ i \in DOMAIN remote /\ remote'[i] = remote[i]
                 \/ /\ Tk(p).pc = "it_setDoc"
                    /\ i = Tk(p).obj.id
                    /\ \E n \in 1..Len(Tk(p).list) : Tk(p).list[n].id = i]_vars

\* a syncToRemote has written threads and returned their number, and the
\* Remote engine still holds a thread the Local engine does not
C39_Witness ==
  \E p \in Procs :
    /\ Tk(p).op = "syncToRemote" /\ Tk(p).pc = "done"
    /\ Tk(p).res.kind = "returned" /\ Tk(p).res.val.t = "num" /\ Tk(p).res.val.n >= 1
    /\ Tk(p).writes = {"remote"}
    /\ \E i \in DOMAIN remote : i \notin DOMAIN idb
    /\ \E i \in DOMAIN remote : i \in DOMAIN idb

====
